---- MODULE Spec2Model ----
(***************************************************************************)
(* VRF reconciliation engine of the ndfc collection: the TTL cache         *)
(* (common/cache), the two VRF API clients (vrf/api/vrf_api.py,            *)
(* vrf/api/vrf_api_v2.py) and the state handlers (vrf/states).             *)
(*                                                                         *)
(* A run is one call of <handler>.execute(configs) against a controller    *)
(* holding VRFs per fabric.  Handlers derived from BaseState use VrfApi,   *)
(* handlers derived from BaseStateV2 use VrfApiV2.  One action is one      *)
(* iteration of a loop of execute (one fabric pre-warm, one desired item,  *)
(* one fabric of a delete phase) or its finalisation.  Every REST request  *)
(* is appended to `calls`.                                                 *)
(*                                                                         *)
(* The controller and the transport are external: a request either fails   *)
(* (non-2xx code or transport error) and changes nothing, or succeeds with *)
(* a response of the wire shape {DATA, MESSAGE, METHOD, REQUEST_PATH,      *)
(* RETURN_CODE}.  A compared configuration (vrfId, vrfTemplate,            *)
(* vrfTemplateConfig, vrfExtensionTemplate) is one token of Cfgs.          *)
(***************************************************************************)
EXTENDS Integers, Sequences, FiniteSets, TLC

MaxItems == 2

DefaultTtl == 300

NoTtl == 0 - 1

Fabrics == {"f1", "f2"}

Ids == {"v1", "v2"}

Cfgs == {"c1", "c2"}

Absent == "absent"

VrfKind == "vrf"

VARIABLES handler, configs, order, ctl, ctl0, cache, now, calls, pending, idx, snap,
          created, updated, deleted, errors, changed, failed, msg,
          queried, response, pc, exc, hist,
          state, raw, verr, store, last, callers, results, attach,
          response_handler, properties

vars == <<handler, configs, order, ctl, ctl0, cache, now, calls, pending, idx, snap,
          created, updated, deleted, errors, changed, failed, msg,
          queried, response, pc, exc, hist,
          state, raw, verr, store, last, callers, results, attach,
          response_handler, properties>>

main_vars == <<state, raw, verr>>

cache_vars == <<store, last>>

component_vars == <<response_handler, properties>>

aux_vars == <<callers, results, attach, response_handler, properties>>

(***************************************************************************)
(* Values                                                                  *)
(***************************************************************************)
NoneD == [kind |-> "none"]

ListD == [kind |-> "list"]

VrfD(n, c) == [kind |-> "vrf", vrfName |-> n, cfg |-> c]

EmptyMap == [n \in {} |-> NoneD]

NoEntry == [present |-> FALSE, data |-> NoneD, timestamp |-> 0, ttl |-> NoTtl]

CacheKey(kind, f, n) == <<kind, f, n>>

SetToSeqs(S) == {s \in [1..Cardinality(S) -> S] : \A i, j \in 1..Cardinality(S) : i # j => s[i] # s[j]}

(***************************************************************************)
(* CacheEntry / MemoryCache                                                *)
(***************************************************************************)
\* Mutation of the expiry test: an entry expires at its deadline, not after it.
CacheEntry_is_expired_at_deadline(e, t) == e.ttl # NoTtl /\ t >= e.timestamp + e.ttl

CacheEntry_is_expired(e, t) == e.ttl # NoTtl /\ t > e.timestamp + e.ttl

\* Mutation of the sweep: entries are dropped by age, whatever their TTL.
MemoryCache_cleanup_expired_by_age(c, t) == [k \in DOMAIN c |-> IF c[k].present /\ t > c[k].timestamp + 1 THEN NoEntry ELSE c[k]]

MemoryCache_cleanup_expired(c, t) == [k \in DOMAIN c |-> IF c[k].present /\ CacheEntry_is_expired(c[k], t) THEN NoEntry ELSE c[k]]

TtlOr(a, d) == IF a = NoTtl \/ a = 0 THEN d ELSE a

MemoryCache_get(c, k, t) ==
    LET c1 == MemoryCache_cleanup_expired(c, t)
    IN  [cache |-> c1, value |-> IF c1[k].present THEN c1[k].data ELSE NoneD]

\* Mutation of set: an entry already in the store is kept (first write wins).
MemoryCache_set_if_absent(c, k, v, ttl, dflt, t) ==
    IF c[k].present THEN c
    ELSE [c EXCEPT ![k] = [present |-> TRUE, data |-> v, timestamp |-> t, ttl |-> TtlOr(ttl, dflt)]]

MemoryCache_set(c, k, v, ttl, dflt, t) ==
    [c EXCEPT ![k] = [present |-> TRUE, data |-> v, timestamp |-> t, ttl |-> TtlOr(ttl, dflt)]]

MemoryCache_delete(c, k) == [c EXCEPT ![k] = NoEntry]

MemoryCache_get_bulk(c, f, kind, t) ==
    LET c1 == MemoryCache_cleanup_expired(c, t)
        ks == {k \in DOMAIN c1 : k[1] = kind /\ k[2] = f /\ c1[k].present}
    IN  [cache |-> c1, data |-> [n \in {k[3] : k \in ks} |-> c1[CacheKey(kind, f, n)].data]]

MemoryCache_set_bulk(c, f, kind, data, ttl, dflt, t) ==
    [k \in DOMAIN c |->
        IF k[1] = kind /\ k[2] = f /\ k[3] \in DOMAIN data
        THEN [present |-> TRUE, data |-> data[k[3]], timestamp |-> t, ttl |-> TtlOr(ttl, dflt)]
        ELSE c[k]]

NoKind == "any"

\* Mutation of invalidate_fabric: without a kind, every fabric is invalidated.
MemoryCache_invalidate_fabric_of_all(c, f, kind) ==
    [k \in DOMAIN c |-> IF kind = NoKind \/ (k[2] = f /\ k[1] = kind) THEN NoEntry ELSE c[k]]

MemoryCache_invalidate_fabric(c, f, kind) ==
    [k \in DOMAIN c |-> IF k[2] = f /\ (kind = NoKind \/ k[1] = kind) THEN NoEntry ELSE c[k]]

MemoryCache_clear(c) == [k \in DOMAIN c |-> NoEntry]

(***************************************************************************)
(* CacheManager (default_ttl_seconds = DefaultTtl).  `fetched` is the      *)
(* outcome of fetch_func(): the value it returns, or that it raises;       *)
(* `fetch` tells whether it was invoked, `raised` whether its exception    *)
(* left the call.                                                          *)
(***************************************************************************)
Returns(v) == [raises |-> FALSE, value |-> v]

Raises == [raises |-> TRUE, value |-> NoneD]

\* Mutation of get_or_fetch: a failed fetch is cached as "not found".
CacheManager_get_or_fetch_caching_failure(c, k, fetched, ttl, t) ==
    LET g == MemoryCache_get(c, k, t)
    IN  IF g.value # NoneD
        THEN [cache |-> g.cache, value |-> g.value, fetch |-> FALSE, raised |-> FALSE]
        ELSE [cache |-> MemoryCache_set(g.cache, k, fetched.value, TtlOr(ttl, DefaultTtl), DefaultTtl, t),
              value |-> fetched.value, fetch |-> TRUE, raised |-> fetched.raises]

CacheManager_get_or_fetch(c, k, fetched, ttl, t) ==
    LET g == MemoryCache_get(c, k, t)
    IN  IF g.value # NoneD
        THEN [cache |-> g.cache, value |-> g.value, fetch |-> FALSE, raised |-> FALSE]
        ELSE IF fetched.raises
             THEN [cache |-> g.cache, value |-> NoneD, fetch |-> TRUE, raised |-> TRUE]
             ELSE [cache |-> MemoryCache_set(g.cache, k, fetched.value, TtlOr(ttl, DefaultTtl), DefaultTtl, t),
                   value |-> fetched.value, fetch |-> TRUE, raised |-> FALSE]

\* Mutation of get_bulk_or_fetch: the fetch is made and cached on a hit too.
CacheManager_get_bulk_or_fetch_refreshing(c, f, kind, fetched, ttl, t) ==
    LET g == MemoryCache_get_bulk(c, f, kind, t)
    IN  IF fetched.raises
        THEN [cache |-> g.cache, data |-> EmptyMap, fetch |-> TRUE, raised |-> TRUE]
        ELSE [cache |-> MemoryCache_set_bulk(g.cache, f, kind, fetched.value, TtlOr(ttl, DefaultTtl), DefaultTtl, t),
              data |-> fetched.value, fetch |-> TRUE, raised |-> FALSE]

CacheManager_get_bulk_or_fetch(c, f, kind, fetched, ttl, t) ==
    LET g == MemoryCache_get_bulk(c, f, kind, t)
    IN  IF DOMAIN g.data # {}
        THEN [cache |-> g.cache, data |-> g.data, fetch |-> FALSE, raised |-> FALSE]
        ELSE IF fetched.raises
             THEN [cache |-> g.cache, data |-> EmptyMap, fetch |-> TRUE, raised |-> TRUE]
             ELSE [cache |-> MemoryCache_set_bulk(g.cache, f, kind, fetched.value, TtlOr(ttl, DefaultTtl), DefaultTtl, t),
                   data |-> fetched.value, fetch |-> TRUE, raised |-> FALSE]

CacheManager_update_cache(c, k, v, ttl, t) == MemoryCache_set(c, k, v, TtlOr(ttl, DefaultTtl), DefaultTtl, t)

CacheManager_remove_from_cache(c, k) == MemoryCache_delete(c, k)

(***************************************************************************)
(* Controller and transport (external collaborators).                      *)
(***************************************************************************)
CtlNames(cv, f) == {n \in Ids : cv[f][n] # Absent}

CtlData(cv, f) == [n \in CtlNames(cv, f) |-> VrfD(n, cv[f][n])]

\* A configuration whose vrf_id is 0 (omitted in the playbook), and the same
\* configuration with the vrf_id the controller assigned to it.
ZeroIdCfg == "c0"

AssignedCfg == "ca"

CtlPost(cv, f, n, c) == [cv EXCEPT ![f][n] = IF c = ZeroIdCfg THEN AssignedCfg ELSE c]

CtlDelete(cv, f, n) == [cv EXCEPT ![f][n] = Absent]

Call(verb, op, f, n, ok, item) ==
    [verb |-> verb, op |-> op, fabric |-> f, name |-> n, ok |-> ok, item |-> item]

Transport_get(w, op, f, ok, it) ==
    [w |-> [w EXCEPT !.calls = Append(@, Call("GET", op, f, "", ok, it))],
     success |-> ok,
     data |-> IF ok THEN CtlData(w.ctl, f) ELSE EmptyMap]

PostOutcomes == {"fail", "ok_plain", "ok_echo"}

Transport_post(w, op, f, n, c, out, it) ==
    [w |-> [w EXCEPT !.ctl = IF out # "fail" THEN CtlPost(@, f, n, c) ELSE @,
                     !.calls = Append(@, Call("POST", op, f, n, out # "fail", it))],
     success |-> out # "fail",
     echo |-> out = "ok_echo"]

Transport_delete(w, f, n, ok, it) ==
    [w |-> [w EXCEPT !.ctl = IF ok THEN CtlDelete(@, f, n) ELSE @,
                     !.calls = Append(@, Call("DELETE", "delete", f, n, ok, it))],
     success |-> ok]

(***************************************************************************)
(* CachedResourceService                                                   *)
(***************************************************************************)
CachedResourceService_exists_cached(c, f, n, fetched, t) ==
    LET g == CacheManager_get_or_fetch(c, CacheKey(VrfKind, f, n), Returns(fetched), NoTtl, t)
    IN  [cache |-> g.cache, exists |-> g.value # NoneD, resource |-> g.value, fetch |-> g.fetch]

CachedResourceService_get_all_cached(c, f, fetched, t) ==
    CacheManager_get_bulk_or_fetch(c, f, VrfKind, Returns(fetched), NoTtl, t)

(***************************************************************************)
(* VrfApiV2                                                                *)
(***************************************************************************)
VrfApiV2_fetch_all_vrfs_models(w, f, ok, it) ==
    LET r == Transport_get(w, "fetch_all", f, ok, it)
    IN  [w |-> r.w, models |-> IF r.success THEN r.data ELSE EmptyMap]

VrfApiV2_get_all_vrfs_cached(w, f, ok, it) ==
    LET fr == VrfApiV2_fetch_all_vrfs_models(w, f, ok, it)
        g  == CachedResourceService_get_all_cached(w.cache, f, fr.models, now)
    IN  [w |-> [(IF g.fetch THEN fr.w ELSE w) EXCEPT !.cache = g.cache], data |-> g.data]

VrfApiV2_vrf_exists_cached(w, f, n, ok, it) ==
    LET fr == VrfApiV2_fetch_all_vrfs_models(w, f, ok, it)
        one == IF n \in DOMAIN fr.models THEN fr.models[n] ELSE NoneD
        g  == CachedResourceService_exists_cached(w.cache, f, n, one, now)
    IN  [w |-> [(IF g.fetch THEN fr.w ELSE w) EXCEPT !.cache = g.cache],
         exists |-> g.exists, cur |-> g.resource]

\* Mutation of create_vrf: the cache is written whatever the request's outcome.
VrfApiV2_create_vrf_caching_always(w, f, n, c, out, it) ==
    LET r == Transport_post(w, "create", f, n, c, out, it)
    IN  [w |-> [r.w EXCEPT !.cache = CacheManager_update_cache(@, CacheKey(VrfKind, f, n), VrfD(n, c), NoTtl, now)],
         success |-> r.success]

VrfApiV2_create_vrf(w, f, n, c, out, it) ==
    LET r == Transport_post(w, "create", f, n, c, out, it)
    IN  [w |-> IF r.success /\ r.echo
               THEN [r.w EXCEPT !.cache = CacheManager_update_cache(@, CacheKey(VrfKind, f, n), VrfD(n, c), NoTtl, now)]
               ELSE r.w,
         success |-> r.success]

VrfApiV2_update_vrf(w, f, n, c, out, it) ==
    LET r == Transport_post(w, "update", f, n, c, out, it)
    IN  [w |-> IF r.success /\ r.echo
               THEN [r.w EXCEPT !.cache = CacheManager_update_cache(@, CacheKey(VrfKind, f, n), VrfD(n, c), NoTtl, now)]
               ELSE r.w,
         success |-> r.success]

\* Mutation of delete_vrf: the cache entry survives a successful delete.
VrfApiV2_delete_vrf_keeping_entry(w, f, n, ok, it) ==
    LET r == Transport_delete(w, f, n, ok, it)
    IN  [w |-> r.w, success |-> r.success]

VrfApiV2_delete_vrf(w, f, n, ok, it) ==
    LET r == Transport_delete(w, f, n, ok, it)
    IN  [w |-> IF r.success
               THEN [r.w EXCEPT !.cache = CacheManager_remove_from_cache(@, CacheKey(VrfKind, f, n))]
               ELSE r.w,
         success |-> r.success]

VrfApiV2_query_all_vrfs(w, f, ok, it) == Transport_get(w, "query_all", f, ok, it)

(***************************************************************************)
(* VrfApi.  rest_send.result_current["response"] is the dump of the        *)
(* VrfControllerResponse built by VrfResponseHandler.commit: a dict with   *)
(* the keys DATA, MESSAGE, METHOD, REQUEST_PATH, RETURN_CODE.              *)
(***************************************************************************)
VrfResponseHandler_result_response(data) == [kind |-> "dict", DATA |-> data]

VrfApi_fetch_all_vrfs(w, f, ok, it) ==
    LET r == Transport_get(w, "fetch_all", f, ok, it)
        response_data == VrfResponseHandler_result_response(r.data)
    IN  [w |-> r.w,
         vrfs |-> IF r.success /\ response_data.kind = "list"
                  THEN r.data
                  ELSE IF r.success /\ "vrfName" \in DOMAIN response_data
                       THEN [n \in {response_data.vrfName} |-> response_data]
                       ELSE EmptyMap]

VrfApi_get_all_cached(w, f, ok, it) ==
    LET fr == VrfApi_fetch_all_vrfs(w, f, ok, it)
        g  == CachedResourceService_get_all_cached(w.cache, f, fr.vrfs, now)
    IN  [w |-> [(IF g.fetch THEN fr.w ELSE w) EXCEPT !.cache = g.cache], data |-> g.data]

VrfApi_exists_cached(w, f, n, ok, it) ==
    LET fr == VrfApi_fetch_all_vrfs(w, f, ok, it)
        one == IF n \in DOMAIN fr.vrfs THEN fr.vrfs[n] ELSE NoneD
        g  == CachedResourceService_exists_cached(w.cache, f, n, one, now)
    IN  [w |-> [(IF g.fetch THEN fr.w ELSE w) EXCEPT !.cache = g.cache],
         exists |-> g.exists, cur |-> g.resource]

VrfApi_extract_vrf_data_for_cache(response_data) ==
    IF "DATA" \in DOMAIN response_data THEN ListD ELSE response_data

VrfApi_create_vrf(w, f, n, c, out, it) ==
    LET r == Transport_post(w, "create", f, n, c, out, it)
        vrf_data == VrfApi_extract_vrf_data_for_cache(VrfResponseHandler_result_response(EmptyMap))
    IN  [w |-> IF r.success
               THEN [r.w EXCEPT !.cache = CacheManager_update_cache(@, CacheKey(VrfKind, f, n), vrf_data, NoTtl, now)]
               ELSE r.w,
         success |-> r.success]

VrfApi_update_vrf(w, f, n, c, out, it) ==
    LET r == Transport_post(w, "update", f, n, c, out, it)
        vrf_data == VrfApi_extract_vrf_data_for_cache(VrfResponseHandler_result_response(EmptyMap))
    IN  [w |-> IF r.success
               THEN [r.w EXCEPT !.cache = CacheManager_update_cache(@, CacheKey(VrfKind, f, n), vrf_data, NoTtl, now)]
               ELSE r.w,
         success |-> r.success]

VrfApi_delete_vrf(w, f, n, ok, it) ==
    LET r == Transport_delete(w, f, n, ok, it)
    IN  [w |-> IF r.success
               THEN [r.w EXCEPT !.cache = CacheManager_remove_from_cache(@, CacheKey(VrfKind, f, n))]
               ELSE r.w,
         success |-> r.success]

VrfApi_query_all_vrfs(w, f, ok, it) == Transport_get(w, "query_all", f, ok, it)

(***************************************************************************)
(* State handlers: shared pieces.  A step of a handler yields a delta: the *)
(* new world, the names appended to the created / updated / deleted lists, *)
(* the errors appended, whether result.changed was set, and the exception  *)
(* that left execute, if any.                                              *)
(***************************************************************************)
World == [ctl |-> ctl, cache |-> cache, calls |-> calls]

V2Handlers == {"MergedV2", "ReplacedV2", "Overridden", "OverriddenV2", "DeletedV2", "QueryV2"}

PopulatingHandlers == {"Merged", "MergedV2", "Replaced", "ReplacedV2", "Overridden", "OverriddenV2"}

FabricsOf(cfgs) == {cfgs[i].fabric : i \in DOMAIN cfgs}

NoDelta(w) ==
    [w |-> w, created |-> <<>>, updated |-> <<>>, deleted |-> <<>>, errors |-> <<>>,
     changed |-> FALSE, exc |-> ""]

Raised(w, e) == [NoDelta(w) EXCEPT !.exc = e]

ErrorOf(text, f, n, it) == [text |-> text, fabric |-> f, name |-> n, item |-> it]

Succeeded(w, op, n) ==
    [NoDelta(w) EXCEPT !.changed = TRUE,
                       !.created = IF op = "create" THEN <<n>> ELSE <<>>,
                       !.updated = IF op \in {"update", "replace"} THEN <<n>> ELSE <<>>,
                       !.deleted = IF op = "delete" THEN <<n>> ELSE <<>>]

Errored(w, text, f, n, it) == [NoDelta(w) EXCEPT !.errors = <<ErrorOf(text, f, n, it)>>]

FailedToText(op) == IF op = "create" THEN "Failed to create VRF" ELSE "Failed to update VRF"

BaseState_vrfs_equal(cur, config) ==
    cur.kind = "vrf" /\ cur.vrfName = config.vrf_name /\ cur.cfg = config.cfg

BaseStateV2_vrfs_equal(cur, config) ==
    cur.vrfName = config.vrf_name /\ cur.cfg = config.cfg

BaseState_handle_api_response(w, success, config, op, it) ==
    IF success THEN Succeeded(w, op, config.vrf_name)
    ELSE Errored(w, FailedToText(op), config.fabric, config.vrf_name, it)

BaseStateV2_handle_api_response(w, success, config, op, it) ==
    IF success THEN Succeeded(w, op, config.vrf_name)
    ELSE Errored(w, FailedToText(op), config.fabric, config.vrf_name, it)

BaseState_execute_vrf_operation(w, config, op, out, it) ==
    LET r == IF op = "create"
             THEN VrfApi_create_vrf(w, config.fabric, config.vrf_name, config.cfg, out, it)
             ELSE VrfApi_update_vrf(w, config.fabric, config.vrf_name, config.cfg, out, it)
    IN  BaseState_handle_api_response(r.w, r.success, config, op, it)

BaseStateV2_execute_vrf_operation_with_response(w, config, op, out, it) ==
    LET r == IF op = "create"
             THEN VrfApiV2_create_vrf(w, config.fabric, config.vrf_name, config.cfg, out, it)
             ELSE VrfApiV2_update_vrf(w, config.fabric, config.vrf_name, config.cfg, out, it)
    IN  BaseStateV2_handle_api_response(r.w, r.success, config, op, it)

Part(label, names) == [label |-> label, names |-> names]

\* Mutation of the summary: the deleted identifiers are left out.
BaseState_build_result_message_without_deleted(cr, up, de) ==
    LET parts == (IF cr # <<>> THEN <<Part("Created VRFs", cr)>> ELSE <<>>)
                 \o (IF up # <<>> THEN <<Part("Updated VRFs", up)>> ELSE <<>>)
    IN  IF parts = <<>> THEN <<Part("No changes needed", <<>>)>> ELSE parts

BaseState_build_result_message(cr, up, de) ==
    LET parts == (IF de # <<>> THEN <<Part("Deleted VRFs", de)>> ELSE <<>>)
                 \o (IF cr # <<>> THEN <<Part("Created VRFs", cr)>> ELSE <<>>)
                 \o (IF up # <<>> THEN <<Part("Updated VRFs", up)>> ELSE <<>>)
    IN  IF parts = <<>> THEN <<Part("No changes needed", <<>>)>> ELSE parts

ErrorParts(errs) == [i \in DOMAIN errs |-> Part(errs[i].text, <<errs[i].name>>)]

(***************************************************************************)
(* Construction                                                            *)
(***************************************************************************)
CtlStates ==
    {c \in [Fabrics -> [Ids -> Cfgs \cup {Absent}]] :
        /\ c["f1"]["v2"] \in {Absent, "c1"}
        /\ c["f2"]["v1"] \in {Absent, "c1"}
        /\ c["f2"]["v2"] = Absent}

CacheKeys == {CacheKey(VrfKind, f, n) : f \in Fabrics, n \in Ids}

NamedItems ==
    {c \in [fabric : Fabrics, vrf_name : Ids, cfg : {"c1"}] :
        c.fabric = "f2" => c.vrf_name = "v1"}

OptionalNameItems ==
    {c \in [fabric : Fabrics, vrf_name : Ids \cup {""}, cfg : {"c1"}] :
        c.fabric = "f2" => c.vrf_name # "v2"}

Batches(items) == UNION {[1..k -> items] : k \in 1..MaxItems}

NotProcessed ==
    [done |-> FALSE, pre |-> Absent, preNames |-> {}, post |-> Absent, postCached |-> FALSE,
     changed |-> FALSE, nerr |-> 0]

NoSnap == [fabric |-> "", existing |-> EmptyMap]

NoResponse == [set |-> FALSE, entries |-> <<>>]

NoIndex == 0 - 1

NoOp == [name |-> "none"]

NoComponent == response_handler = <<>> /\ properties = <<>>

NoAux == callers = <<>> /\ results = <<>> /\ attach = <<>> /\ NoComponent

NotRun ==
    /\ calls = <<>>
    /\ idx = 1
    /\ snap = NoSnap
    /\ created = <<>>
    /\ updated = <<>>
    /\ deleted = <<>>
    /\ errors = <<>>
    /\ changed = FALSE
    /\ failed = FALSE
    /\ msg = <<>>
    /\ queried = <<>>
    /\ response = NoResponse
    /\ exc = ""

InitOf(handlers, batches) ==
    /\ handler \in handlers
    /\ configs \in batches
    /\ ctl \in CtlStates
    /\ ctl0 = ctl
    /\ cache = [k \in CacheKeys |-> NoEntry]
    /\ now = 0
    /\ NotRun
    /\ order \in IF handler \in PopulatingHandlers THEN SetToSeqs(FabricsOf(configs)) ELSE {<<>>}
    /\ pending = order
    /\ pc = IF handler \in PopulatingHandlers THEN "populate" ELSE "items"
    /\ hist = [i \in DOMAIN configs |-> NotProcessed]
    /\ state = "" /\ raw = <<>> /\ verr = NoIndex
    /\ store = <<>> /\ last = NoOp
    /\ NoAux

InitWith(handlers, items) == InitOf(handlers, Batches(items))

SetWorld(w) == ctl' = w.ctl /\ cache' = w.cache /\ calls' = w.calls

ApplyDelta(d) ==
    /\ SetWorld(d.w)
    /\ created' = created \o d.created
    /\ updated' = updated \o d.updated
    /\ deleted' = deleted \o d.deleted
    /\ errors' = errors \o d.errors
    /\ changed' = (changed \/ d.changed)
    /\ exc' = d.exc

Recorded(i, d) ==
    LET f == configs[i].fabric
        n == configs[i].vrf_name
    IN  [done |-> TRUE,
         pre |-> IF n = "" THEN Absent ELSE ctl[f][n],
         preNames |-> CtlNames(ctl, f),
         post |-> IF n = "" THEN Absent ELSE d.w.ctl[f][n],
         postCached |-> IF n = "" THEN FALSE ELSE d.w.cache[CacheKey(VrfKind, f, n)].present,
         changed |-> d.changed,
         nerr |-> Len(d.errors)]

ItemStepAt(i, d, npc) ==
    /\ ApplyDelta(d)
    /\ hist' = [hist EXCEPT ![i] = Recorded(i, d)]
    /\ idx' = idx + 1
    /\ pc' = IF d.exc # "" THEN "raised" ELSE npc
    /\ UNCHANGED <<main_vars, cache_vars, aux_vars, handler, configs, order, ctl0, now, pending, failed, msg, response>>

ItemStep(d) ==
    /\ ItemStepAt(idx, d, IF idx + 1 > Len(configs) THEN "final" ELSE pc)
    /\ UNCHANGED <<snap, queried>>

(***************************************************************************)
(* BaseState / BaseStateV2 ._populate_all_fabric_caches: one fabric of the *)
(* set of fabrics, in the set's iteration order (`order`: any order, the   *)
(* same each time the same set is built in one process).                   *)
(***************************************************************************)
AfterPopulate(h) ==
    IF h = "Overridden" THEN "unwanted" ELSE IF h = "OverriddenV2" THEN "fabric" ELSE "items"

PopulateOne ==
    /\ pc = "populate"
    /\ \E ok \in BOOLEAN :
          LET f == Head(pending)
              r == IF handler \in V2Handlers
                   THEN VrfApiV2_get_all_vrfs_cached(World, f, ok, 0)
                   ELSE VrfApi_get_all_cached(World, f, ok, 0)
          IN  /\ SetWorld(r.w)
              /\ IF Tail(pending) = <<>>
                 THEN /\ pc' = AfterPopulate(handler)
                      /\ pending' = IF handler = "Overridden" THEN order ELSE <<>>
                 ELSE /\ pc' = pc
                      /\ pending' = Tail(pending)
    /\ UNCHANGED <<main_vars, cache_vars, aux_vars, handler, configs, order, ctl0, now, idx, snap, created, updated, deleted, errors,
                   changed, failed, msg, queried, response, exc, hist>>

(***************************************************************************)
(* Merged.execute / MergedV2.execute: one desired item.                    *)
(***************************************************************************)
MergedItem ==
    /\ handler = "Merged" /\ pc = "items"
    /\ \E gok \in BOOLEAN, out \in PostOutcomes :
          LET config == configs[idx]
              ex == VrfApi_exists_cached(World, config.fabric, config.vrf_name, gok, idx)
          IN  ItemStep(IF ex.exists
                       THEN IF ex.cur.kind = "list" THEN Raised(ex.w, "AttributeError")
                            ELSE IF ~BaseState_vrfs_equal(ex.cur, config)
                                 THEN BaseState_execute_vrf_operation(ex.w, config, "update", out, idx)
                                 ELSE NoDelta(ex.w)
                       ELSE BaseState_execute_vrf_operation(ex.w, config, "create", out, idx))

MergedV2Item ==
    /\ handler = "MergedV2" /\ pc = "items"
    /\ \E gok \in BOOLEAN, out \in PostOutcomes :
          LET config == configs[idx]
              ex == VrfApiV2_vrf_exists_cached(World, config.fabric, config.vrf_name, gok, idx)
          IN  ItemStep(IF ex.exists
                       THEN IF ~BaseStateV2_vrfs_equal(ex.cur, config)
                            THEN BaseStateV2_execute_vrf_operation_with_response(ex.w, config, "update", out, idx)
                            ELSE NoDelta(ex.w)
                       ELSE BaseStateV2_execute_vrf_operation_with_response(ex.w, config, "create", out, idx))

(***************************************************************************)
(* _finalize_result and the tail of execute.                               *)
(***************************************************************************)
Finalize ==
    /\ pc = "final"
    /\ handler \in PopulatingHandlers
    /\ failed' = (errors # <<>>)
    /\ msg' = IF errors # <<>> THEN ErrorParts(errors)
              ELSE BaseState_build_result_message(created, updated, deleted)
    /\ pc' = "done"
    /\ UNCHANGED <<main_vars, cache_vars, aux_vars, handler, configs, order, ctl, ctl0, cache, now, calls, pending, idx, snap,
                   created, updated, deleted, errors, changed, queried, response, exc, hist>>

InitMerged == InitWith({"Merged", "MergedV2"}, NamedItems)

NextMerged == PopulateOne \/ MergedItem \/ MergedV2Item \/ Finalize

SpecMerged == InitMerged /\ [][NextMerged]_vars

(***************************************************************************)
(* Two consecutive merged runs with the same desired list.  The second run *)
(* starts with a fresh cache (a new process) against the controller the    *)
(* first run left; `last` keeps what the first run did.  An item of cfg    *)
(* ZeroIdCfg is a MergedVrfConfig whose vrf_id was omitted: to_vrf_config  *)
(* sends vrf_id 0.                                                         *)
(***************************************************************************)
RerunItems == [fabric : {"f1"}, vrf_name : Ids, cfg : {"c1", ZeroIdCfg}]

InitRerun == InitOf({"Merged", "MergedV2"}, Batches(RerunItems))

FirstRun ==
    [name |-> "run", calls |-> calls, changed |-> changed, failed |-> failed, ctl |-> ctl]

MergedRerun ==
    /\ handler \in {"Merged", "MergedV2"} /\ pc = "done" /\ last = NoOp
    /\ last' = FirstRun
    /\ cache' = [k \in CacheKeys |-> NoEntry]
    /\ ctl0' = ctl
    /\ calls' = <<>> /\ idx' = 1 /\ snap' = NoSnap
    /\ created' = <<>> /\ updated' = <<>> /\ deleted' = <<>> /\ errors' = <<>>
    /\ changed' = FALSE /\ failed' = FALSE /\ msg' = <<>>
    /\ queried' = <<>> /\ response' = NoResponse /\ exc' = ""
    /\ pending' = order
    /\ pc' = "populate"
    /\ hist' = [i \in DOMAIN configs |-> NotProcessed]
    /\ UNCHANGED <<main_vars, aux_vars, store, handler, configs, order, ctl, now>>

NextRerun == PopulateOne \/ MergedItem \/ MergedV2Item \/ Finalize \/ MergedRerun

SpecRerun == InitRerun /\ [][NextRerun]_vars

(***************************************************************************)
(* Replaced.execute / ReplacedV2.execute: one desired item.  BaseState has *)
(* no _execute_vrf_operation_with_response, so the call at replaced.py:57  *)
(* ends in AttributeError.                                                 *)
(***************************************************************************)
Replaced_replace_existing_vrf(w, config, dok, out, it) ==
    LET d == VrfApi_delete_vrf(w, config.fabric, config.vrf_name, dok, it)
        c == VrfApi_create_vrf(d.w, config.fabric, config.vrf_name, config.cfg, out, it)
    IN  IF d.success
        THEN IF c.success
             THEN Succeeded(c.w, "replace", config.vrf_name)
             ELSE Errored(c.w, "Failed to create VRF after deletion", config.fabric, config.vrf_name, it)
        ELSE Errored(d.w, "Failed to delete VRF for replacement", config.fabric, config.vrf_name, it)

\* Mutation of the replacement: a failed create is retried once.
ReplacedV2_replace_existing_vrf_retrying(w, config, dok, out, it) ==
    LET d == VrfApiV2_delete_vrf(w, config.fabric, config.vrf_name, dok, it)
        c == VrfApiV2_create_vrf(d.w, config.fabric, config.vrf_name, config.cfg, out, it)
        c2 == VrfApiV2_create_vrf(c.w, config.fabric, config.vrf_name, config.cfg, out, it)
    IN  IF d.success
        THEN IF c.success
             THEN Succeeded(c.w, "replace", config.vrf_name)
             ELSE Errored(c2.w, "Failed to create replacement VRF", config.fabric, config.vrf_name, it)
        ELSE Errored(d.w, "Failed to delete existing VRF", config.fabric, config.vrf_name, it)

ReplacedV2_replace_existing_vrf(w, config, dok, out, it) ==
    LET d == VrfApiV2_delete_vrf(w, config.fabric, config.vrf_name, dok, it)
        c == VrfApiV2_create_vrf(d.w, config.fabric, config.vrf_name, config.cfg, out, it)
    IN  IF d.success
        THEN IF c.success
             THEN Succeeded(c.w, "replace", config.vrf_name)
             ELSE Errored(c.w, "Failed to create replacement VRF", config.fabric, config.vrf_name, it)
        ELSE Errored(d.w, "Failed to delete existing VRF", config.fabric, config.vrf_name, it)

ReplacedItem ==
    /\ handler = "Replaced" /\ pc = "items"
    /\ \E gok \in BOOLEAN, dok \in BOOLEAN, out \in PostOutcomes :
          LET config == configs[idx]
              ex == VrfApi_exists_cached(World, config.fabric, config.vrf_name, gok, idx)
          IN  ItemStep(IF ex.exists
                       THEN IF ex.cur.kind = "list" THEN Raised(ex.w, "AttributeError")
                            ELSE IF ~BaseState_vrfs_equal(ex.cur, config)
                                 THEN Replaced_replace_existing_vrf(ex.w, config, dok, out, idx)
                                 ELSE NoDelta(ex.w)
                       ELSE Raised(ex.w, "AttributeError"))

ReplacedV2Item ==
    /\ handler = "ReplacedV2" /\ pc = "items"
    /\ \E gok \in BOOLEAN, dok \in BOOLEAN, out \in PostOutcomes :
          LET config == configs[idx]
              ex == VrfApiV2_vrf_exists_cached(World, config.fabric, config.vrf_name, gok, idx)
          IN  ItemStep(IF ex.exists
                       THEN ReplacedV2_replace_existing_vrf(ex.w, config, dok, out, idx)
                       ELSE BaseStateV2_execute_vrf_operation_with_response(ex.w, config, "create", out, idx))

InitReplaced == InitWith({"Replaced", "ReplacedV2"}, NamedItems)

NextReplaced == PopulateOne \/ ReplacedItem \/ ReplacedV2Item \/ Finalize

SpecReplaced == InitReplaced /\ [][NextReplaced]_vars

(***************************************************************************)
(* Deleting a list of names of one fabric, one delete_vrf call per name,   *)
(* in the iteration order of the listing.                                  *)
(***************************************************************************)
RECURSIVE DeleteEach(_, _, _, _, _, _, _)
DeleteEach(w, f, names, oks, text, it, v2) ==
    IF names = <<>> THEN NoDelta(w)
    ELSE LET n == Head(names)
             r == IF v2 THEN VrfApiV2_delete_vrf(w, f, n, oks[n], it)
                        ELSE VrfApi_delete_vrf(w, f, n, oks[n], it)
             rest == DeleteEach(r.w, f, Tail(names), oks, text, it, v2)
         IN  [rest EXCEPT !.deleted = (IF r.success THEN <<n>> ELSE <<>>) \o @,
                          !.errors = (IF r.success THEN <<>> ELSE <<ErrorOf(text, f, n, it)>>) \o @,
                          !.changed = (r.success \/ @)]

DesiredNames(f) == {configs[i].vrf_name : i \in {j \in DOMAIN configs : configs[j].fabric = f}}

(***************************************************************************)
(* Overridden.execute: _delete_unwanted_vrfs for one fabric of the set of  *)
(* fabrics, then _process_desired_vrfs for one desired item.               *)
(***************************************************************************)
\* Mutation of the unwanted set: every existing name, desired or not.
Overridden_unwanted_everything(existing_names, desired_names) == existing_names

Overridden_unwanted(existing_names, desired_names) == existing_names \ desired_names

OverriddenUnwanted ==
    /\ handler = "Overridden" /\ pc = "unwanted"
    /\ \E gok \in BOOLEAN :
          LET f == Head(pending)
              g == VrfApiV2_get_all_vrfs_cached(World, f, gok, 0)
              todel == Overridden_unwanted(DOMAIN g.data, DesiredNames(f))
          IN  \E names \in SetToSeqs(todel), oks \in [todel -> BOOLEAN] :
                 /\ ApplyDelta(DeleteEach(g.w, f, names, oks, "Failed to delete unwanted VRF", 0, TRUE))
                 /\ pending' = Tail(pending)
                 /\ pc' = IF Tail(pending) = <<>> THEN "items" ELSE pc
    /\ UNCHANGED <<main_vars, cache_vars, aux_vars, handler, configs, order, ctl0, now, idx, snap, failed, msg, queried, response, hist>>

OverriddenItem ==
    /\ handler = "Overridden" /\ pc = "items"
    /\ \E gok \in BOOLEAN, out \in PostOutcomes :
          LET config == configs[idx]
              ex == VrfApiV2_vrf_exists_cached(World, config.fabric, config.vrf_name, gok, idx)
          IN  ItemStep(IF ex.exists
                       THEN IF ~BaseStateV2_vrfs_equal(ex.cur, config)
                            THEN BaseStateV2_execute_vrf_operation_with_response(ex.w, config, "update", out, idx)
                            ELSE NoDelta(ex.w)
                       ELSE BaseStateV2_execute_vrf_operation_with_response(ex.w, config, "create", out, idx))

(***************************************************************************)
(* OverriddenV2.execute: fabrics in order of first appearance; for each,   *)
(* _process_fabric_override reads the listing once, then creates/updates   *)
(* the desired items of the fabric, then deletes the unwanted names.       *)
(***************************************************************************)
Undone == {i \in DOMAIN configs : ~hist[i].done}

Least(S) == CHOOSE i \in S : \A j \in S : i <= j

\* Mutation of the unwanted set: every existing name, desired or not.
OverriddenV2_vrfs_to_delete_everything(existing_names, desired_names) == existing_names

OverriddenV2_vrfs_to_delete(existing_names, desired_names) == existing_names \ desired_names

OverriddenV2Begin ==
    /\ handler = "OverriddenV2" /\ pc = "fabric"
    /\ \E gok \in BOOLEAN :
          LET f == configs[Least(Undone)].fabric
              g == VrfApiV2_get_all_vrfs_cached(World, f, gok, 0)
          IN  /\ SetWorld(g.w)
              /\ snap' = [fabric |-> f, existing |-> g.data]
              /\ pc' = "items"
    /\ UNCHANGED <<main_vars, cache_vars, aux_vars, handler, configs, order, ctl0, now, pending, idx, created, updated, deleted, errors,
                   changed, failed, msg, queried, response, exc, hist>>

OverriddenV2Item ==
    /\ handler = "OverriddenV2" /\ pc = "items"
    /\ \E out \in PostOutcomes :
          LET mine == {i \in Undone : configs[i].fabric = snap.fabric}
              i == Least(mine)
              config == configs[i]
              d == IF config.vrf_name \in DOMAIN snap.existing
                   THEN IF snap.existing[config.vrf_name] = NoneD THEN Raised(World, "AttributeError")
                        ELSE IF ~BaseStateV2_vrfs_equal(snap.existing[config.vrf_name], config)
                             THEN BaseStateV2_execute_vrf_operation_with_response(World, config, "update", out, i)
                             ELSE NoDelta(World)
                   ELSE BaseStateV2_execute_vrf_operation_with_response(World, config, "create", out, i)
          IN  ItemStepAt(i, d, IF mine = {i} THEN "deletes" ELSE pc)
    /\ UNCHANGED <<snap, queried>>

OverriddenV2Deletes ==
    /\ handler = "OverriddenV2" /\ pc = "deletes"
    /\ LET f == snap.fabric
           todel == OverriddenV2_vrfs_to_delete(DOMAIN snap.existing, DesiredNames(f))
       IN  \E names \in SetToSeqs(todel), oks \in [todel -> BOOLEAN] :
              ApplyDelta(DeleteEach(World, f, names, oks, "Failed to delete unwanted VRF", 0, TRUE))
    /\ snap' = NoSnap
    /\ pc' = IF Undone = {} THEN "final" ELSE "fabric"
    /\ UNCHANGED <<main_vars, cache_vars, aux_vars, handler, configs, order, ctl0, now, pending, idx, failed, msg, queried, response, hist>>

InitOverridden == InitWith({"Overridden", "OverriddenV2"}, NamedItems)

NextOverridden ==
    \/ PopulateOne
    \/ OverriddenUnwanted
    \/ OverriddenItem
    \/ OverriddenV2Begin
    \/ OverriddenV2Item
    \/ OverriddenV2Deletes
    \/ Finalize

SpecOverridden == InitOverridden /\ [][NextOverridden]_vars

(***************************************************************************)
(* The overridden handlers on batches of MaxOrderItems items, so that the  *)
(* items of two fabrics can alternate in the list.                         *)
(***************************************************************************)
MaxOrderItems == 3

InitListOrder == InitOf({"Overridden", "OverriddenV2"}, [1..MaxOrderItems -> NamedItems])

SpecListOrder == InitListOrder /\ [][NextOverridden]_vars

(***************************************************************************)
(* Deleted.execute / DeletedV2.execute: one desired item, and the tail of  *)
(* execute.  Deleted lists a fabric with query_all_vrfs, DeletedV2 with    *)
(* _get_all_fabric_vrfs.                                                   *)
(***************************************************************************)
Deleted_delete_specific_vrf(w, config, gok, dok, it) ==
    LET ex == VrfApi_exists_cached(w, config.fabric, config.vrf_name, gok, it)
        r == VrfApi_delete_vrf(ex.w, config.fabric, config.vrf_name, dok, it)
    IN  IF ex.exists
        THEN IF r.success THEN Succeeded(r.w, "delete", config.vrf_name)
             ELSE Errored(r.w, "Failed to delete VRF", config.fabric, config.vrf_name, it)
        ELSE NoDelta(ex.w)

DeletedV2_delete_specific_vrf(w, config, gok, dok, it) ==
    LET ex == VrfApiV2_vrf_exists_cached(w, config.fabric, config.vrf_name, gok, it)
        r == VrfApiV2_delete_vrf(ex.w, config.fabric, config.vrf_name, dok, it)
    IN  IF ex.exists
        THEN IF r.success THEN Succeeded(r.w, "delete", config.vrf_name)
             ELSE Errored(r.w, "Failed to delete VRF", config.fabric, config.vrf_name, it)
        ELSE NoDelta(ex.w)

Deleted_delete_all_vrfs_in_fabric(w, f, gok, names, oks, it) ==
    LET q == VrfApi_query_all_vrfs(w, f, gok, it)
    IN  IF ~q.success THEN Errored(q.w, "Failed to query VRFs in fabric", f, "", it)
        ELSE DeleteEach(q.w, f, names, oks, "Failed to delete VRF", it, FALSE)

DeletedV2_delete_all_vrfs_in_fabric(w, f, gok, names, oks, it) ==
    LET g == VrfApiV2_get_all_vrfs_cached(w, f, gok, it)
    IN  DeleteEach(g.w, f, names, oks, "Failed to delete VRF", it, TRUE)

DeletedItem ==
    /\ handler = "Deleted" /\ pc = "items"
    /\ \E gok \in BOOLEAN, dok \in BOOLEAN :
          LET config == configs[idx]
              listed == DOMAIN VrfApi_query_all_vrfs(World, config.fabric, gok, idx).data
          IN  IF config.vrf_name = ""
              THEN \E names \in SetToSeqs(listed), oks \in [listed -> BOOLEAN] :
                      ItemStep(Deleted_delete_all_vrfs_in_fabric(World, config.fabric, gok, names, oks, idx))
              ELSE ItemStep(Deleted_delete_specific_vrf(World, config, gok, dok, idx))

DeletedV2Item ==
    /\ handler = "DeletedV2" /\ pc = "items"
    /\ \E gok \in BOOLEAN, dok \in BOOLEAN :
          LET config == configs[idx]
              listed == DOMAIN VrfApiV2_get_all_vrfs_cached(World, config.fabric, gok, idx).data
          IN  IF config.vrf_name # ""
              THEN ItemStep(DeletedV2_delete_specific_vrf(World, config, gok, dok, idx))
              ELSE \E names \in SetToSeqs(listed), oks \in [listed -> BOOLEAN] :
                      ItemStep(DeletedV2_delete_all_vrfs_in_fabric(World, config.fabric, gok, names, oks, idx))

DeletedFinalize ==
    /\ pc = "final"
    /\ handler \in {"Deleted", "DeletedV2"}
    /\ failed' = (errors # <<>>)
    /\ msg' = IF errors # <<>> THEN ErrorParts(errors)
              ELSE IF deleted # <<>> THEN <<Part("Deleted VRFs", deleted)>>
                   ELSE <<Part("No VRFs to delete", <<>>)>>
    /\ pc' = "done"
    /\ UNCHANGED <<main_vars, cache_vars, aux_vars, handler, configs, order, ctl, ctl0, cache, now, calls, pending, idx, snap,
                   created, updated, deleted, errors, changed, queried, response, exc, hist>>

InitDeleted == InitWith({"Deleted", "DeletedV2"}, OptionalNameItems)

NextDeleted == DeletedItem \/ DeletedV2Item \/ DeletedFinalize

SpecDeleted == InitDeleted /\ [][NextDeleted]_vars

(***************************************************************************)
(* Query.execute / QueryV2.execute: one desired item, and the tail of      *)
(* execute.  VrfApi.query_vrf and query_all_vrfs return a list of VRF      *)
(* dicts; VrfApiV2's return a VrfControllerResponse.                       *)
(***************************************************************************)
Matching(data, n) == {m \in DOMAIN data : m = n}

Entry(kind, f, names) == [kind |-> kind, fabric |-> f, names |-> names]

VrfApi_query_vrf(w, f, n, ok, it) ==
    LET q == VrfApi_query_all_vrfs(w, f, ok, it)
    IN  [w |-> q.w, success |-> q.success,
         vrfs |-> IF q.success THEN Matching(q.data, n) ELSE {}]

\* Mutation of query_vrf: the listing is returned unfiltered.
VrfApiV2_query_vrf_unfiltered(w, f, n, ok, it) ==
    LET q == VrfApiV2_query_all_vrfs(w, f, ok, it)
    IN  [w |-> q.w, success |-> q.success,
         vrfs |-> IF q.success THEN DOMAIN q.data ELSE {}]

VrfApiV2_query_vrf(w, f, n, ok, it) ==
    LET q == VrfApiV2_query_all_vrfs(w, f, ok, it)
    IN  [w |-> q.w, success |-> q.success,
         vrfs |-> IF q.success THEN Matching(q.data, n) ELSE {}]

QueryItem ==
    /\ handler = "Query" /\ pc = "items"
    /\ \E gok \in BOOLEAN :
          LET config == configs[idx]
              f == config.fabric
              n == config.vrf_name
              one == VrfApi_query_vrf(World, f, n, gok, idx)
              all == VrfApi_query_all_vrfs(World, f, gok, idx)
          IN  IF n # ""
              THEN /\ ItemStepAt(idx,
                                 IF one.success THEN NoDelta(one.w)
                                 ELSE Errored(one.w, "Failed to query VRF", f, n, idx),
                                 IF idx + 1 > Len(configs) THEN "final" ELSE pc)
                   /\ queried' = IF one.success /\ one.vrfs # {}
                                 THEN Append(queried, Entry("list", f, one.vrfs))
                                 ELSE queried
              ELSE /\ ItemStepAt(idx,
                                 IF all.success
                                 THEN IF DOMAIN all.data # {} THEN Raised(all.w, "AttributeError")
                                      ELSE NoDelta(all.w)
                                 ELSE Errored(all.w, "Failed to query VRFs in fabric", f, "", idx),
                                 IF idx + 1 > Len(configs) THEN "final" ELSE pc)
                   /\ queried' = queried
    /\ UNCHANGED snap

QueryV2Item ==
    /\ handler = "QueryV2" /\ pc = "items"
    /\ \E gok \in BOOLEAN :
          LET config == configs[idx]
              f == config.fabric
              n == config.vrf_name
              one == VrfApiV2_query_vrf(World, f, n, gok, idx)
              all == VrfApiV2_query_all_vrfs(World, f, gok, idx)
          IN  IF n # ""
              THEN /\ ItemStepAt(idx,
                                 IF one.success THEN NoDelta(one.w)
                                 ELSE Errored(one.w, "Failed to query VRF", f, n, idx),
                                 IF idx + 1 > Len(configs) THEN "final" ELSE pc)
                   /\ queried' = IF one.success
                                 THEN Append(queried, Entry("dict", f, one.vrfs))
                                 ELSE queried
              ELSE /\ ItemStepAt(idx,
                                 IF all.success THEN NoDelta(all.w)
                                 ELSE Errored(all.w, "Failed to query VRFs in fabric", f, "", idx),
                                 IF idx + 1 > Len(configs) THEN "final" ELSE pc)
                   /\ queried' = IF all.success
                                 THEN Append(queried, Entry("dict", f, DOMAIN all.data))
                                 ELSE queried
    /\ UNCHANGED snap

ModuleResult_response_valid(entries) == \A i \in DOMAIN entries : entries[i].kind = "dict"

\* Mutation of the tail of Query.execute: changed is reported as set.
Query_result_changed_set(ch) == TRUE

Query_result_changed(ch) == FALSE

RECURSIVE SumNames(_)
SumNames(entries) ==
    IF entries = <<>> THEN 0 ELSE Cardinality(Head(entries).names) + SumNames(Tail(entries))

QueriedPart(n) == [label |-> "Queried VRFs", names |-> <<>>, count |-> n]

QueryFinalize ==
    /\ pc = "final"
    /\ handler \in {"Query", "QueryV2"}
    /\ IF errors # <<>>
       THEN /\ failed' = TRUE
            /\ msg' = ErrorParts(errors)
            /\ response' = response
            /\ changed' = Query_result_changed(changed)
            /\ pc' = "done"
            /\ exc' = exc
       ELSE IF ModuleResult_response_valid(queried)
            THEN /\ failed' = failed
                 /\ msg' = <<QueriedPart(IF handler = "Query" THEN Len(queried) ELSE SumNames(queried))>>
                 /\ response' = [set |-> TRUE, entries |-> queried]
                 /\ changed' = Query_result_changed(changed)
                 /\ pc' = "done"
                 /\ exc' = exc
            ELSE /\ failed' = failed
                 /\ msg' = <<QueriedPart(Len(queried))>>
                 /\ response' = response
                 /\ changed' = changed
                 /\ pc' = "raised"
                 /\ exc' = "ValidationError"
    /\ UNCHANGED <<main_vars, cache_vars, aux_vars, handler, configs, order, ctl, ctl0, cache, now, calls, pending, idx, snap,
                   created, updated, deleted, errors, queried, hist>>

InitQuery == InitWith({"Query", "QueryV2"}, OptionalNameItems)

NextQuery == QueryItem \/ QueryV2Item \/ QueryFinalize

SpecQuery == InitQuery /\ [][NextQuery]_vars

(***************************************************************************)
(* ndfc_vrf.main: validate_parameters, then the API client (VrfApi), the   *)
(* handler StateFactory.create_state picks, its execute, and the exit.     *)
(* A raw item is one element of the module's config list; Missing is an    *)
(* option the task did not give.  AnsibleModule.fail_json / exit_json end  *)
(* the process.                                                            *)
(***************************************************************************)
Missing == "missing"

States == {"deleted", "merged", "overridden", "query", "replaced"}

RawItems ==
    {r \in [fabric : {"f1", ""}, vrf_name : {"v1", Missing}, vrf_id : {"given", Missing},
            vrf_template_config : {"given", Missing}] :
        r.vrf_template_config = Missing => r.vrf_id = Missing}

BaseVrfConfig_valid(r) == r.fabric # Missing /\ r.fabric # ""

DeletedVrfConfig_valid(r) == BaseVrfConfig_valid(r) /\ r.vrf_name # ""

QueryVrfConfig_valid(r) == BaseVrfConfig_valid(r) /\ r.vrf_name # ""

MergedVrfConfig_valid(r) ==
    /\ BaseVrfConfig_valid(r)
    /\ r.vrf_name # Missing /\ r.vrf_name # ""
    /\ r.vrf_template_config # Missing

ReplacedVrfConfig_valid(r) == MergedVrfConfig_valid(r) /\ r.vrf_id # Missing

StateConfig_valid(r, st) ==
    CASE st = "deleted" -> DeletedVrfConfig_valid(r)
      [] st = "query" -> QueryVrfConfig_valid(r)
      [] st = "merged" -> MergedVrfConfig_valid(r)
      [] st = "replaced" -> ReplacedVrfConfig_valid(r)
      [] st = "overridden" -> ReplacedVrfConfig_valid(r)

StateConfig_to_vrf_config(r, st) ==
    [fabric |-> r.fabric,
     vrf_name |-> IF r.vrf_name = Missing THEN "" ELSE r.vrf_name,
     cfg |-> IF st = "deleted" \/ r.vrf_id = Missing THEN "c2" ELSE "c1"]

\* Mutation of the validator: an invalid item is skipped, not reported.
VrfValidator_validate_config_list_by_state_skipping(config_list, st) ==
    LET good == SelectSeq(config_list, LAMBDA r : StateConfig_valid(r, st))
    IN  [ok |-> good # <<>>, index |-> NoIndex,
         configs |-> [i \in DOMAIN good |-> StateConfig_to_vrf_config(good[i], st)]]

VrfValidator_validate_config_list_by_state(config_list, st) ==
    LET bad == {i \in DOMAIN config_list : ~StateConfig_valid(config_list[i], st)}
    IN  IF bad # {}
        THEN [ok |-> FALSE, index |-> Least(bad) - 1, configs |-> <<>>]
        ELSE [ok |-> TRUE, index |-> NoIndex,
              configs |-> [i \in DOMAIN config_list |-> StateConfig_to_vrf_config(config_list[i], st)]]

StateFactory_create_state(st) ==
    CASE st = "merged" -> "Merged"
      [] st = "deleted" -> "Deleted"
      [] st = "query" -> "Query"
      [] st = "replaced" -> "Replaced"
      [] st = "overridden" -> "Overridden"

MainCtlStates == {c \in CtlStates : CtlNames(c, "f2") = {}}

InitMain ==
    /\ state \in States
    /\ raw \in Batches(RawItems)
    /\ verr = NoIndex
    /\ handler = ""
    /\ configs = <<>>
    /\ hist = <<>>
    /\ ctl \in MainCtlStates
    /\ ctl0 = ctl
    /\ cache = [k \in CacheKeys |-> NoEntry]
    /\ now = 0
    /\ NotRun
    /\ order = <<>>
    /\ pending = <<>>
    /\ pc = "validate"
    /\ store = <<>> /\ last = NoOp
    /\ NoAux

validate_parameters ==
    /\ pc = "validate"
    /\ LET v == VrfValidator_validate_config_list_by_state(raw, state)
       IN  /\ verr' = v.index
           /\ configs' = v.configs
           /\ hist' = [i \in DOMAIN v.configs |-> NotProcessed]
           /\ failed' = ~v.ok
           /\ pc' = IF v.ok THEN "validated" ELSE "fail_json"
    /\ UNCHANGED <<cache_vars, aux_vars, state, raw, handler, order, ctl, ctl0, cache, now, calls, pending, idx,
                   snap, created, updated, deleted, errors, changed, msg, queried, response, exc>>

\* Overridden derives from BaseStateV2, whose _populate_all_fabric_caches
\* calls get_all_vrfs_cached, a method VrfApi does not have.
MainCreateState ==
    /\ pc = "validated"
    /\ handler' = StateFactory_create_state(state)
    /\ IF handler' = "Overridden"
       THEN /\ pc' = "raised" /\ exc' = "AttributeError"
            /\ order' = order
       ELSE /\ pc' = IF handler' \in PopulatingHandlers THEN "populate" ELSE "items"
            /\ exc' = exc
            /\ order' \in IF handler' \in PopulatingHandlers THEN SetToSeqs(FabricsOf(configs)) ELSE {<<>>}
    /\ pending' = order'
    /\ UNCHANGED <<main_vars, cache_vars, aux_vars, configs, ctl, ctl0, cache, now, calls, idx, snap, created,
                   updated, deleted, errors, changed, failed, msg, queried, response, hist>>

MainExit ==
    /\ pc \in {"done", "raised"}
    /\ failed' = (failed \/ pc = "raised")
    /\ pc' = IF failed' THEN "fail_json" ELSE "exit_json"
    /\ UNCHANGED <<main_vars, cache_vars, aux_vars, handler, configs, order, ctl, ctl0, cache, now, calls, pending, idx,
                   snap, created, updated, deleted, errors, changed, msg, queried, response, exc, hist>>

NextMain ==
    \/ validate_parameters
    \/ MainCreateState
    \/ PopulateOne
    \/ MergedItem
    \/ ReplacedItem
    \/ DeletedItem
    \/ QueryItem
    \/ Finalize
    \/ DeletedFinalize
    \/ QueryFinalize
    \/ MainExit

SpecMain == InitMain /\ [][NextMain]_vars

(***************************************************************************)
(* The cache on its own: calls on a MemoryCache() (no store default TTL)   *)
(* and on a CacheManager() (default TTL DefaultTtl), with the clock moving *)
(* between calls.  `last` is the latest call: its arguments, the store     *)
(* before it, the time it was made, and what it returned.  The value       *)
(* written by the n-th call is Val(n).                                     *)
(***************************************************************************)
MaxOps == 4

OtherKind == "network"

Kinds == {VrfKind, OtherKind}

StoreKeys == {CacheKey(kind, f, n) : kind \in Kinds, f \in Fabrics, n \in Ids}

OpKeys ==
    {CacheKey(VrfKind, "f1", "v1"), CacheKey(VrfKind, "f1", "v2"),
     CacheKey(VrfKind, "f2", "v1"), CacheKey(OtherKind, "f1", "v1")}

OpTtls == {NoTtl, 1}

OpSteps == {1, 2}

OpIdSets == {{"v1"}, {"v1", "v2"}}

Val(n) == [kind |-> "val", n |-> n]

MemoryCacheDefaultTtl == NoTtl

Op(name, k, ttl, value, data, fetched, fetch, raised) ==
    [n |-> last.n + 1, name |-> name, kind |-> k[1], fabric |-> k[2], id |-> k[3], ttl |-> ttl,
     at |-> now, before |-> store, value |-> value, data |-> data,
     fetched |-> fetched, fetch |-> fetch, raised |-> raised]

handler_vars ==
    <<handler, configs, order, ctl, ctl0, cache, calls, pending, idx, snap, created, updated,
      deleted, errors, changed, failed, msg, queried, response, pc, exc, hist>>

InitCache ==
    /\ store = [k \in StoreKeys |-> NoEntry]
    /\ now = 0
    /\ last = [n |-> 0, name |-> "init", kind |-> "", fabric |-> "", id |-> "", ttl |-> NoTtl,
               at |-> 0, before |-> store, value |-> NoneD, data |-> EmptyMap,
               fetched |-> Returns(NoneD), fetch |-> FALSE, raised |-> FALSE]
    /\ handler = "" /\ configs = <<>> /\ order = <<>> /\ pending = <<>> /\ hist = <<>>
    /\ ctl = [f \in Fabrics |-> [n \in Ids |-> Absent]]
    /\ ctl0 = ctl
    /\ cache = [k \in CacheKeys |-> NoEntry]
    /\ NotRun
    /\ pc = "cache"
    /\ state = "" /\ raw = <<>> /\ verr = NoIndex
    /\ NoAux

CacheStep(st, op) ==
    /\ store' = st
    /\ last' = op
    /\ UNCHANGED <<main_vars, aux_vars, handler_vars, now>>

Tick ==
    /\ last.n < MaxOps
    /\ \E d \in OpSteps : now' = now + d
    /\ last' = Op("tick", <<"", "", "">>, NoTtl, NoneD, EmptyMap, Returns(NoneD), FALSE, FALSE)
    /\ UNCHANGED <<main_vars, aux_vars, handler_vars, store>>

MemoryCacheGet ==
    /\ last.n < MaxOps
    /\ \E k \in OpKeys :
           LET g == MemoryCache_get(store, k, now)
           IN  CacheStep(g.cache, Op("get", k, NoTtl, g.value, EmptyMap, Returns(NoneD), FALSE, FALSE))

MemoryCacheSet ==
    /\ last.n < MaxOps
    /\ \E k \in OpKeys, ttl \in OpTtls :
           CacheStep(MemoryCache_set(store, k, Val(last.n + 1), ttl, MemoryCacheDefaultTtl, now),
                     Op("set", k, ttl, NoneD, EmptyMap, Returns(NoneD), FALSE, FALSE))

MemoryCacheDelete ==
    /\ last.n < MaxOps
    /\ \E k \in OpKeys :
           CacheStep(MemoryCache_delete(store, k),
                     Op("delete", k, NoTtl, NoneD, EmptyMap, Returns(NoneD), FALSE, FALSE))

MemoryCacheGetBulk ==
    /\ last.n < MaxOps
    /\ \E f \in Fabrics, kind \in Kinds :
           LET g == MemoryCache_get_bulk(store, f, kind, now)
           IN  CacheStep(g.cache, Op("get_bulk", <<kind, f, "">>, NoTtl, NoneD, g.data, Returns(NoneD), FALSE, FALSE))

MemoryCacheSetBulk ==
    /\ last.n < MaxOps
    /\ \E f \in Fabrics, ids \in OpIdSets, ttl \in OpTtls :
           LET data == [n \in ids |-> Val(last.n + 1)]
           IN  CacheStep(MemoryCache_set_bulk(store, f, VrfKind, data, ttl, MemoryCacheDefaultTtl, now),
                         Op("set_bulk", <<VrfKind, f, "">>, ttl, NoneD, data, Returns(NoneD), FALSE, FALSE))

MemoryCacheInvalidateFabric ==
    /\ last.n < MaxOps
    /\ \E f \in Fabrics, kind \in {NoKind, OtherKind} :
           CacheStep(MemoryCache_invalidate_fabric(store, f, kind),
                     Op("invalidate_fabric", <<kind, f, "">>, NoTtl, NoneD, EmptyMap, Returns(NoneD), FALSE, FALSE))

MemoryCacheClear ==
    /\ last.n < MaxOps
    /\ CacheStep(MemoryCache_clear(store),
                 Op("clear", <<"", "", "">>, NoTtl, NoneD, EmptyMap, Returns(NoneD), FALSE, FALSE))

NextMemoryCache ==
    \/ Tick
    \/ MemoryCacheGet
    \/ MemoryCacheSet
    \/ MemoryCacheDelete
    \/ MemoryCacheGetBulk
    \/ MemoryCacheSetBulk
    \/ MemoryCacheInvalidateFabric
    \/ MemoryCacheClear

SpecMemoryCache == InitCache /\ [][NextMemoryCache]_vars

ManagerKeys == {CacheKey(VrfKind, "f1", "v1"), CacheKey(VrfKind, "f2", "v1")}

FetchedValues(n) == {Raises, Returns(NoneD), Returns(Val(n))}

FetchedMappings(n) ==
    {Raises, Returns(EmptyMap), Returns([i \in {"v1", "v2"} |-> Val(n)])}

CacheManagerGetOrFetch ==
    /\ last.n < MaxOps
    /\ \E k \in ManagerKeys, fetched \in FetchedValues(last.n + 1), ttl \in OpTtls :
           LET r == CacheManager_get_or_fetch(store, k, fetched, ttl, now)
           IN  CacheStep(r.cache, Op("get_or_fetch", k, ttl, r.value, EmptyMap, fetched, r.fetch, r.raised))

CacheManagerGetBulkOrFetch ==
    /\ last.n < MaxOps
    /\ \E f \in Fabrics, fetched \in FetchedMappings(last.n + 1), ttl \in OpTtls :
           LET r == CacheManager_get_bulk_or_fetch(store, f, VrfKind, fetched, ttl, now)
           IN  CacheStep(r.cache, Op("get_bulk_or_fetch", <<VrfKind, f, "">>, ttl, NoneD, r.data, fetched, r.fetch, r.raised))

CacheManagerUpdateCache ==
    /\ last.n < MaxOps
    /\ \E k \in OpKeys :
           CacheStep(CacheManager_update_cache(store, k, Val(last.n + 1), NoTtl, now),
                     Op("update_cache", k, NoTtl, NoneD, EmptyMap, Returns(NoneD), FALSE, FALSE))

CacheManagerRemoveFromCache ==
    /\ last.n < MaxOps
    /\ \E k \in ManagerKeys :
           CacheStep(CacheManager_remove_from_cache(store, k),
                     Op("remove_from_cache", k, NoTtl, NoneD, EmptyMap, Returns(NoneD), FALSE, FALSE))

NextCacheManager ==
    \/ Tick
    \/ CacheManagerGetOrFetch
    \/ CacheManagerGetBulkOrFetch
    \/ CacheManagerUpdateCache
    \/ CacheManagerRemoveFromCache

SpecCacheManager == InitCache /\ [][NextCacheManager]_vars

(***************************************************************************)
(* The calls that take ttl_seconds, with 0 among the arguments: set and    *)
(* set_bulk on a MemoryCache without default, update_cache and             *)
(* get_or_fetch on a CacheManager whose default is DefaultTtl.             *)
(***************************************************************************)
TtlArgs == {NoTtl, 0, 1}

ZeroTtlSet ==
    /\ last.n < MaxOps
    /\ \E k \in ManagerKeys, ttl \in TtlArgs :
           CacheStep(MemoryCache_set(store, k, Val(last.n + 1), ttl, MemoryCacheDefaultTtl, now),
                     Op("set", k, ttl, NoneD, EmptyMap, Returns(NoneD), FALSE, FALSE))

ZeroTtlSetBulk ==
    /\ last.n < MaxOps
    /\ \E f \in {"f1"}, ids \in OpIdSets, ttl \in TtlArgs :
           LET data == [n \in ids |-> Val(last.n + 1)]
           IN  CacheStep(MemoryCache_set_bulk(store, f, VrfKind, data, ttl, MemoryCacheDefaultTtl, now),
                         Op("set_bulk", <<VrfKind, f, "">>, ttl, NoneD, data, Returns(NoneD), FALSE, FALSE))

ZeroTtlUpdateCache ==
    /\ last.n < MaxOps
    /\ \E k \in ManagerKeys, ttl \in TtlArgs :
           CacheStep(CacheManager_update_cache(store, k, Val(last.n + 1), ttl, now),
                     Op("update_cache", k, ttl, NoneD, EmptyMap, Returns(NoneD), FALSE, FALSE))

ZeroTtlGetOrFetch ==
    /\ last.n < MaxOps
    /\ \E k \in ManagerKeys, fetched \in FetchedValues(last.n + 1), ttl \in TtlArgs :
           LET r == CacheManager_get_or_fetch(store, k, fetched, ttl, now)
           IN  CacheStep(r.cache, Op("get_or_fetch", k, ttl, r.value, EmptyMap, fetched, r.fetch, r.raised))

NextZeroTtl ==
    \/ ZeroTtlSet
    \/ ZeroTtlSetBulk
    \/ ZeroTtlUpdateCache
    \/ ZeroTtlGetOrFetch
    \/ MemoryCacheGet
    \/ Tick

SpecZeroTtl == InitCache /\ [][NextZeroTtl]_vars

(***************************************************************************)
(* The API client on its own: any sequence of up to MaxApiOps calls of the *)
(* public methods of one VrfApi / VrfApiV2 instance, against a controller  *)
(* nothing else changes.  `last` records the call: its arguments, what it  *)
(* returned, and the cache and request log before it.                      *)
(***************************************************************************)
MaxApiOps == 2

ApiFamilies == {"VrfApi", "VrfApiV2"}

ApiTargets == {<<"f1", "v1">>, <<"f1", "v2">>, <<"f2", "v1">>}

ApiOp(name, f, n, c, success, names) ==
    [n |-> last.n + 1, name |-> name, fabric |-> f, id |-> n, cfg |-> c, success |-> success,
     names |-> names, before |-> cache, ctl_before |-> ctl, calls_before |-> Len(calls)]

InitVrfApi ==
    /\ handler \in ApiFamilies
    /\ ctl \in CtlStates
    /\ ctl0 = ctl
    /\ cache = [k \in CacheKeys |-> NoEntry]
    /\ now = 0
    /\ NotRun
    /\ last = [n |-> 0, name |-> "init", fabric |-> "", id |-> "", cfg |-> "", success |-> TRUE,
               names |-> {}, before |-> cache, ctl_before |-> ctl, calls_before |-> 0]
    /\ configs = <<>> /\ order = <<>> /\ pending = <<>> /\ hist = <<>>
    /\ pc = "api"
    /\ state = "" /\ raw = <<>> /\ verr = NoIndex
    /\ store = <<>>
    /\ NoAux

ApiStep(w, op) ==
    /\ SetWorld(w)
    /\ last' = op
    /\ UNCHANGED <<main_vars, aux_vars, store, handler, configs, order, ctl0, now, pending, idx, snap, created, updated,
                   deleted, errors, changed, failed, msg, queried, response, pc, exc, hist>>

VrfApiGetCached ==
    /\ last.n < MaxApiOps
    /\ \E t \in ApiTargets, ok \in BOOLEAN :
          LET r == IF handler = "VrfApiV2" THEN VrfApiV2_vrf_exists_cached(World, t[1], t[2], ok, 0)
                                          ELSE VrfApi_exists_cached(World, t[1], t[2], ok, 0)
          IN  ApiStep(r.w, ApiOp("get_cached", t[1], t[2], "", TRUE, IF r.cur = NoneD THEN {} ELSE {t[2]}))

VrfApiExistsCached ==
    /\ last.n < MaxApiOps
    /\ \E t \in ApiTargets, ok \in BOOLEAN :
          LET r == IF handler = "VrfApiV2" THEN VrfApiV2_vrf_exists_cached(World, t[1], t[2], ok, 0)
                                          ELSE VrfApi_exists_cached(World, t[1], t[2], ok, 0)
          IN  ApiStep(r.w, ApiOp("exists_cached", t[1], t[2], "", r.exists, IF r.exists THEN {t[2]} ELSE {}))

VrfApiGetAllCached ==
    /\ last.n < MaxApiOps
    /\ \E f \in Fabrics, ok \in BOOLEAN :
          LET r == IF handler = "VrfApiV2" THEN VrfApiV2_get_all_vrfs_cached(World, f, ok, 0)
                                          ELSE VrfApi_get_all_cached(World, f, ok, 0)
          IN  ApiStep(r.w, ApiOp("get_all_cached", f, "", "", TRUE, DOMAIN r.data))

VrfApiCreateVrf ==
    /\ last.n < MaxApiOps
    /\ \E t \in ApiTargets, out \in PostOutcomes :
          LET r == IF handler = "VrfApiV2" THEN VrfApiV2_create_vrf(World, t[1], t[2], "c1", out, 0)
                                          ELSE VrfApi_create_vrf(World, t[1], t[2], "c1", out, 0)
          IN  ApiStep(r.w, ApiOp("create_vrf", t[1], t[2], "c1", r.success, {}))

VrfApiUpdateVrf ==
    /\ last.n < MaxApiOps
    /\ \E t \in ApiTargets, out \in PostOutcomes :
          LET r == IF handler = "VrfApiV2" THEN VrfApiV2_update_vrf(World, t[1], t[2], "c2", out, 0)
                                          ELSE VrfApi_update_vrf(World, t[1], t[2], "c2", out, 0)
          IN  ApiStep(r.w, ApiOp("update_vrf", t[1], t[2], "c2", r.success, {}))

VrfApiDeleteVrf ==
    /\ last.n < MaxApiOps
    /\ \E t \in ApiTargets, ok \in BOOLEAN :
          LET r == IF handler = "VrfApiV2" THEN VrfApiV2_delete_vrf(World, t[1], t[2], ok, 0)
                                          ELSE VrfApi_delete_vrf(World, t[1], t[2], ok, 0)
          IN  ApiStep(r.w, ApiOp("delete_vrf", t[1], t[2], "", r.success, {}))

VrfApiQueryVrf ==
    /\ last.n < MaxApiOps
    /\ \E t \in ApiTargets, ok \in BOOLEAN :
          LET r == IF handler = "VrfApiV2" THEN VrfApiV2_query_vrf(World, t[1], t[2], ok, 0)
                                          ELSE VrfApi_query_vrf(World, t[1], t[2], ok, 0)
          IN  ApiStep(r.w, ApiOp("query_vrf", t[1], t[2], "", r.success, r.vrfs))

VrfApiQueryAllVrfs ==
    /\ last.n < MaxApiOps
    /\ \E f \in Fabrics, ok \in BOOLEAN :
          LET r == IF handler = "VrfApiV2" THEN VrfApiV2_query_all_vrfs(World, f, ok, 0)
                                          ELSE VrfApi_query_all_vrfs(World, f, ok, 0)
          IN  ApiStep(r.w, ApiOp("query_all_vrfs", f, "", "", r.success, DOMAIN r.data))

NextVrfApi ==
    \/ VrfApiGetCached
    \/ VrfApiExistsCached
    \/ VrfApiGetAllCached
    \/ VrfApiCreateVrf
    \/ VrfApiUpdateVrf
    \/ VrfApiDeleteVrf
    \/ VrfApiQueryVrf
    \/ VrfApiQueryAllVrfs

SpecVrfApi == InitVrfApi /\ [][NextVrfApi]_vars

(***************************************************************************)
(* Two callers of CacheManager.get_or_fetch on the same key of one shared  *)
(* store.  The method takes no lock: between its three statements          *)
(* (self._cache.get, fetch_func(), self._cache.set) the other caller may   *)
(* run.  Each statement is one step; callers[c] is where caller c stands,  *)
(* what its get saw, what it fetched, what it returned and the rank of its *)
(* set among the sets made.                                                *)
(***************************************************************************)
Callers == {"A", "B"}

MaxRaceTime == 2

RaceKey == CacheKey(VrfKind, "f1", "v1")

RaceOtherKey == CacheKey(VrfKind, "f1", "v2")

RaceValues == {Val(1), Val(2)}

NotCalled == [pc |-> "idle", ttl |-> NoTtl, missed |-> FALSE, value |-> NoneD, ret |-> NoneD, fetches |-> 0, rank |-> 0]

SetsMade == Cardinality({c \in Callers : callers[c].rank > 0})

InitRace ==
    /\ store \in {[k \in StoreKeys |-> NoEntry],
                  [[k \in StoreKeys |-> NoEntry] EXCEPT ![RaceOtherKey] = [present |-> TRUE, data |-> Val(0), timestamp |-> 0, ttl |-> NoTtl]]}
    /\ callers \in [Callers -> {[NotCalled EXCEPT !.ttl = t] : t \in OpTtls}]
    /\ now = 0
    /\ last = NoOp
    /\ results = <<>> /\ attach = <<>> /\ NoComponent
    /\ handler = "" /\ configs = <<>> /\ order = <<>> /\ pending = <<>> /\ hist = <<>>
    /\ ctl = [f \in Fabrics |-> [n \in Ids |-> Absent]]
    /\ ctl0 = ctl
    /\ cache = [k \in CacheKeys |-> NoEntry]
    /\ NotRun
    /\ pc = "race"
    /\ state = "" /\ raw = <<>> /\ verr = NoIndex

RaceStep(c, st, rec) ==
    /\ store' = st
    /\ callers' = [callers EXCEPT ![c] = rec]
    /\ UNCHANGED <<main_vars, handler_vars, now, last, results, attach, component_vars>>

RaceGet ==
    /\ \E c \in Callers :
          /\ callers[c].pc = "idle"
          /\ LET g == MemoryCache_get(store, RaceKey, now)
             IN  RaceStep(c, g.cache,
                          IF g.value # NoneD
                          THEN [callers[c] EXCEPT !.pc = "done", !.ret = g.value]
                          ELSE [callers[c] EXCEPT !.pc = "missed", !.missed = TRUE])

RaceFetch ==
    /\ \E c \in Callers, v \in RaceValues :
          /\ callers[c].pc = "missed"
          /\ RaceStep(c, store, [callers[c] EXCEPT !.pc = "fetched", !.value = v, !.fetches = @ + 1])

RaceSet ==
    /\ \E c \in Callers :
          /\ callers[c].pc = "fetched"
          /\ RaceStep(c, MemoryCache_set(store, RaceKey, callers[c].value,
                                         TtlOr(callers[c].ttl, DefaultTtl), MemoryCacheDefaultTtl, now),
                       [callers[c] EXCEPT !.pc = "done", !.ret = callers[c].value, !.rank = SetsMade + 1])

RaceTick ==
    /\ now < MaxRaceTime
    /\ now' = now + 1
    /\ UNCHANGED <<main_vars, handler_vars, store, last, aux_vars>>

NextRace == RaceGet \/ RaceFetch \/ RaceSet \/ RaceTick

SpecRace == InitRace /\ [][NextRace]_vars

(***************************************************************************)
(* Results (common/classes/results.py).  The dicts the caller hands over   *)
(* are objects of a heap: results.heap maps a reference to the dict's      *)
(* present content, and response_current / result_current hold references. *)
(* A list element is either a detached copy (ref = NoRef) or an alias of a *)
(* heap object; Deref gives what reading the element yields.               *)
(* results.registered is the history of what was registered.               *)
(***************************************************************************)
MaxTasks == 2

Tri == {"True", "False", "missing"}

NoRef == "none"

NoSeq == 0

CallerDicts == {"d1", "d2"}

EmptyDict == [success |-> "missing", changed |-> "missing", tag |-> 0, sequence_number |-> NoSeq]

ResultContents == {[EmptyDict EXCEPT !.success = x, !.changed = y] : x \in Tri, y \in Tri}

ResponseContents == {[EmptyDict EXCEPT !.tag = 1]}

Modes ==
    {[action |-> "merge", state |-> "merged", check_mode |-> FALSE],
     [action |-> "merge", state |-> "merged", check_mode |-> TRUE],
     [action |-> "query", state |-> "merged", check_mode |-> FALSE],
     [action |-> "merge", state |-> "query", check_mode |-> FALSE]}

NoFinal == [built |-> FALSE]

\* Mutation of copy.deepcopy: the list keeps the caller's dict itself.
copy_deepcopy_aliasing(heap, r) == [ref |-> r, value |-> heap[r]]

copy_deepcopy(heap, r) == [ref |-> NoRef, value |-> heap[r]]

Deref(heap, e) == IF e.ref = NoRef THEN e.value ELSE heap[e.ref]

\* Mutation of did_anything_change: check_mode, action and state are ignored.
Results_did_anything_change_unconditional(R) == R.heap[R.result_current].changed = "True"

Results_did_anything_change(R) ==
    IF R.check_mode THEN FALSE
    ELSE IF R.action = "query" \/ R.state = "query" THEN FALSE
    ELSE R.heap[R.result_current].changed = "True"

Results_metadata_current(R) ==
    [action |-> R.action, check_mode |-> R.check_mode, state |-> R.state, sequence_number |-> R.task_sequence_number]

Results_register_task_result(R) ==
    LET R1 == [R EXCEPT !.task_sequence_number = @ + 1]
        R2 == [R1 EXCEPT !.metadata = Append(@, [ref |-> NoRef, value |-> Results_metadata_current(R1)])]
        R3 == [R2 EXCEPT !.heap[R2.response_current].sequence_number = R2.task_sequence_number]
        R4 == [R3 EXCEPT !.response = Append(@, copy_deepcopy(R3.heap, R3.response_current))]
        R5 == [R4 EXCEPT !.heap[R4.result_current].sequence_number = R4.task_sequence_number]
        R6 == [R5 EXCEPT !.result = Append(@, copy_deepcopy(R5.heap, R5.result_current))]
        R7 == [R6 EXCEPT !.changed = @ \cup {Results_did_anything_change(R6)}]
    IN  [R7 EXCEPT !.failed = @ \cup {R7.heap[R7.result_current].success = "False"},
                   !.registered = Append(@, [response |-> R3.heap[R3.response_current],
                                             result |-> R5.heap[R5.result_current],
                                             action |-> R.action, state |-> R.state,
                                             check_mode |-> R.check_mode])]

Results_build_final_result(R) ==
    [R EXCEPT !.final = [built |-> TRUE, failed |-> TRUE \in R.failed, changed |-> TRUE \in R.changed]]

Results_init ==
    [task_sequence_number |-> 0,
     heap |-> [r \in CallerDicts \cup {"_response_current", "_result_current"} |-> EmptyDict],
     response_current |-> "_response_current", result_current |-> "_result_current",
     action |-> "na", state |-> "query", check_mode |-> FALSE,
     changed |-> {FALSE}, failed |-> {},
     metadata |-> <<>>, response |-> <<>>, result |-> <<>>,
     final |-> NoFinal, registered |-> <<>>]

InitResults ==
    /\ results = Results_init
    /\ callers = <<>> /\ attach = <<>> /\ NoComponent
    /\ store = <<>> /\ last = NoOp
    /\ handler = "" /\ configs = <<>> /\ order = <<>> /\ pending = <<>> /\ hist = <<>>
    /\ ctl = [f \in Fabrics |-> [n \in Ids |-> Absent]]
    /\ ctl0 = ctl
    /\ cache = [k \in CacheKeys |-> NoEntry]
    /\ now = 0
    /\ NotRun
    /\ pc = "results"
    /\ state = "" /\ raw = <<>> /\ verr = NoIndex

ResultsStep(R) ==
    /\ results' = R
    /\ UNCHANGED <<main_vars, cache_vars, handler_vars, now, callers, attach, component_vars>>

ResultsSetResponseCurrent ==
    /\ results.task_sequence_number < MaxTasks /\ ~results.final.built
    /\ \E v \in ResponseContents :
          ResultsStep([results EXCEPT !.heap["d2"] = v, !.response_current = "d2"])

ResultsSetResultCurrent ==
    /\ results.task_sequence_number < MaxTasks /\ ~results.final.built
    /\ \E v \in ResultContents :
          ResultsStep([results EXCEPT !.heap["d1"] = v, !.result_current = "d1"])

ResultsSetMode ==
    /\ results.task_sequence_number < MaxTasks /\ ~results.final.built
    /\ \E m \in Modes :
          ResultsStep([results EXCEPT !.action = m.action, !.state = m.state, !.check_mode = m.check_mode])

CallerMutatesDict ==
    /\ results.task_sequence_number >= 1
    /\ \E r \in CallerDicts :
          /\ results.heap[r].tag < 3
          /\ ResultsStep([results EXCEPT !.heap[r].tag = 3, !.heap[r].changed = "True", !.heap[r].sequence_number = NoSeq])

register_task_result ==
    /\ results.task_sequence_number < MaxTasks
    /\ ~results.final.built
    /\ ResultsStep(Results_register_task_result(results))

build_final_result ==
    /\ ~results.final.built
    /\ ResultsStep(Results_build_final_result(results))

NextResults ==
    \/ ResultsSetResponseCurrent
    \/ ResultsSetResultCurrent
    \/ ResultsSetMode
    \/ CallerMutatesDict
    \/ register_task_result
    \/ build_final_result

SpecResults == InitResults /\ [][NextResults]_vars

(***************************************************************************)
(* The vrf_attachment module (nd_vrf_attachments.py) in the states         *)
(* deleted, merged and overridden.  attach.config is the raw config list;  *)
(* an item's lan_attach_list is omitted (given = FALSE) or a list of       *)
(* switches (ip_address values).  attach.controller holds the switches     *)
(* each VRF of fabric f1 is attached to.  attach.exc is the exception      *)
(* that is propagating, "" when none is.                                   *)
(***************************************************************************)
MaxAttachItems == 2

AttachSwitches == {"s1", "s2"}

AttachFabric == "f1"

AttachStates == {"deleted", "merged", "overridden"}

LanAttachLists == {<<"s1">>, <<"s2">>, <<"s1", "s2">>}

AttachItems ==
    {[fabric |-> AttachFabric, vrf_name |-> n, given |-> FALSE, lan_attach_list |-> <<>>] : n \in Ids}
    \cup {[fabric |-> AttachFabric, vrf_name |-> n, given |-> TRUE, lan_attach_list |-> l] :
             n \in Ids, l \in LanAttachLists \cup {<<>>}}

ModuleResult_init == [changed |-> FALSE, failed |-> FALSE, msg |-> ""]

\* The state models: lan_attach_list is optional for deleted and required,
\* with at least one element, for merged and overridden.
StateVrfAttachmentConfig_valid(item, st) ==
    /\ item.fabric # "" /\ item.vrf_name # ""
    /\ st \in {"merged", "overridden"} => (item.given /\ Len(item.lan_attach_list) >= 1)

DeletedVrfAttachmentConfig_to_vrf_attachment_config(item) ==
    [fabric |-> item.fabric, vrf_name |-> item.vrf_name,
     lan_attach_list |-> IF item.given /\ item.lan_attach_list # <<>> THEN item.lan_attach_list ELSE <<>>]

\* VrfAttachmentConfig: lan_attach_list = Field(..., min_items=1).
VrfAttachmentConfig_valid(c) ==
    /\ c.fabric # "" /\ c.vrf_name # ""
    /\ Len(c.lan_attach_list) >= 1

\* Index of the first item validate_config_list_by_state rejects (by its state
\* model or by the conversion to VrfAttachmentConfig), NoIndex when none is.
VrfAttachmentValidator_first_invalid(config, st) ==
    LET bad == {i \in DOMAIN config :
                  \/ ~StateVrfAttachmentConfig_valid(config[i], st)
                  \/ ~VrfAttachmentConfig_valid(DeletedVrfAttachmentConfig_to_vrf_attachment_config(config[i]))}
    IN  IF bad = {} THEN NoIndex ELSE CHOOSE i \in bad : \A j \in bad : i <= j

VrfAttachmentValidator_validate_config_list_by_state(config) ==
    [i \in DOMAIN config |-> DeletedVrfAttachmentConfig_to_vrf_attachment_config(config[i])]

SwitchesOf(l) == {l[k] : k \in DOMAIN l}

\* Keys of one lanAttachList element as to_payload builds it, and the fields
\* of LanAttachPayload (extra = "forbid"; the first four are required).
LanAttachDataKeys ==
    {"fabric", "vrfName", "ipAddress", "vlanId", "deployment", "extensionValues", "freeformConfig", "instanceValues"}

LanAttachPayloadFields ==
    {"fabric", "vrfName", "serialNumber", "vlanId", "deployment", "extensionValues", "freeformConfig", "instanceValues"}

LanAttachPayloadRequired == {"fabric", "vrfName", "serialNumber", "vlanId"}

LanAttachPayload_valid(keys) ==
    LanAttachPayloadRequired \subseteq keys /\ keys \subseteq LanAttachPayloadFields

VrfAttachmentConfig_to_payload(c) ==
    [vrfName |-> c.vrf_name,
     lanAttachList |-> [k \in DOMAIN c.lan_attach_list |->
                           [keys |-> LanAttachDataKeys, ipAddress |-> c.lan_attach_list[k]]]]

\* VrfAttachmentPayload.model_validate: lanAttachList has min_items=1 and each
\* element is validated as a LanAttachPayload.
VrfAttachmentPayload_valid(p) ==
    /\ Len(p.lanAttachList) >= 1
    /\ \A k \in DOMAIN p.lanAttachList : LanAttachPayload_valid(p.lanAttachList[k].keys)

AttachRequest(i, verb, op, n, sw, ok) ==
    [item |-> i, verb |-> verb, op |-> op, vrf_name |-> n, switches |-> sw, ok |-> ok]

\* attach_vrf / detach_vrf: _prepare_payload_for_controller translates each
\* element that holds an ipAddress, reading controller_payload["fabric"], a
\* key the dump of VrfAttachmentPayload does not hold; then one POST, which a
\* controller that accepts it applies.
VrfAttachmentApi_post(a, p, op, ok, i) ==
    LET sw == {p.lanAttachList[k].ipAddress : k \in DOMAIN p.lanAttachList}
    IN  IF \E k \in DOMAIN p.lanAttachList : "ipAddress" \in p.lanAttachList[k].keys
        THEN [a EXCEPT !.exc = "KeyError"]
        ELSE [a EXCEPT !.requests = Append(@, AttachRequest(i, "POST", op, p.vrfName, sw, ok)),
                       !.controller[p.vrfName] =
                           IF ~ok THEN @ ELSE IF op = "attach" THEN @ \cup sw ELSE @ \ sw]

VrfAttachmentApi_query_vrf_attachments(a, n, ok, i) ==
    [a EXCEPT !.requests = Append(@, AttachRequest(i, "GET", "query", n, {}, ok)),
              !.read_failed = IF ok THEN @ ELSE @ \cup {i}]

\* _execute_vrf_attachment_operation_with_response with _handle_api_response;
\* `keep` tells whether the caller keeps the success list it passes.
BaseState_execute_vrf_attachment_operation_with_response(a, c, op, ok, i, keep) ==
    LET p == VrfAttachmentConfig_to_payload(c)
        r == VrfAttachmentApi_post(a, p, op, ok, i)
    IN  IF ~VrfAttachmentPayload_valid(p) THEN [a EXCEPT !.exc = "ValidationError"]
        ELSE IF r.exc # "" THEN r
        ELSE IF ok
             THEN [r EXCEPT !.result = [@ EXCEPT !.changed = TRUE],
                            !.attached_vrfs = IF keep /\ op = "attach" THEN Append(@, c.vrf_name) ELSE @,
                            !.detached_vrfs = IF keep /\ op = "detach" THEN Append(@, c.vrf_name) ELSE @]
             ELSE [r EXCEPT !.errors = Append(@, [text |-> "Failed to " \o op \o " VRF", vrf_name |-> c.vrf_name])]

BaseState_finalize_result(a) ==
    [a EXCEPT !.result =
        IF a.errors # <<>> THEN [@ EXCEPT !.failed = TRUE, !.msg = "errors"]
        ELSE IF a.detached_vrfs # <<>> THEN [@ EXCEPT !.msg = "Detached VRFs"]
        ELSE IF a.attached_vrfs # <<>> THEN [@ EXCEPT !.msg = "Attached VRFs"]
        ELSE [@ EXCEPT !.msg = "No changes needed"]]

Seen(a, i) == [a EXCEPT !.seen = Append(@, a.controller[a.validated[i].vrf_name])]

\* Merged.execute: every item is attached, whatever the controller holds.
RECURSIVE Merged_execute_loop(_, _, _)
Merged_execute_loop(a, i, oks) ==
    IF i > Len(a.validated) \/ a.exc # "" THEN a
    ELSE Merged_execute_loop(
             BaseState_execute_vrf_attachment_operation_with_response(Seen(a, i), a.validated[i], "attach", oks[i], i, TRUE),
             i + 1, oks)

Merged_execute(a, qoks, oks) ==
    LET b == Merged_execute_loop(a, 1, oks)
    IN  IF b.exc # "" THEN b ELSE BaseState_finalize_result(b)

\* _delete_all_vrf_attachments: one GET of the VRF's attachments; a failed
\* query adds an error, a successful one is not acted upon.
Deleted_delete_all_vrf_attachments(a, i, ok) ==
    LET c == a.validated[i]
        q == VrfAttachmentApi_query_vrf_attachments(a, c.vrf_name, ok, i)
    IN  IF ok THEN q
        ELSE [q EXCEPT !.errors = Append(@, [text |-> "Failed to query VRF attachments", vrf_name |-> c.vrf_name])]

RECURSIVE Deleted_execute_loop(_, _, _, _)
Deleted_execute_loop(a, i, qoks, oks) ==
    IF i > Len(a.validated) \/ a.exc # "" THEN a
    ELSE Deleted_execute_loop(
             IF a.validated[i].lan_attach_list = <<>>
             THEN Deleted_delete_all_vrf_attachments(Seen(a, i), i, qoks[i])
             ELSE BaseState_execute_vrf_attachment_operation_with_response(Seen(a, i), a.validated[i], "detach", oks[i], i, TRUE),
             i + 1, qoks, oks)

Deleted_execute(a, qoks, oks) ==
    LET b == Deleted_execute_loop(a, 1, qoks, oks)
    IN  IF b.exc # "" THEN b
        ELSE [b EXCEPT !.result =
                IF b.errors # <<>> THEN [@ EXCEPT !.failed = TRUE, !.msg = "errors"]
                ELSE IF b.detached_vrfs # <<>> THEN [@ EXCEPT !.msg = "Detached VRFs"]
                ELSE [@ EXCEPT !.msg = "No VRF attachments to delete"]]

\* _get_current_vrf_attachments: a failed query counts as no attachment.
Overridden_get_current_vrf_attachments(a, n, ok) == IF ok THEN a.controller[n] ELSE {}

Overridden_determine_vrf_attachments_to_detach(current, c) == current \ SwitchesOf(c.lan_attach_list)

\* _detach_vrf_attachments: one detach operation per unwanted attachment; an
\* exception of the operation becomes an error entry.
RECURSIVE Overridden_detach_vrf_attachments(_, _, _, _, _)
Overridden_detach_vrf_attachments(a, c, todo, ok, i) ==
    IF todo = <<>> THEN a
    ELSE LET dc == [fabric |-> c.fabric, vrf_name |-> c.vrf_name, lan_attach_list |-> <<Head(todo)>>]
             r == BaseState_execute_vrf_attachment_operation_with_response(a, dc, "detach", ok, i, FALSE)
             s == IF r.exc # ""
                  THEN [r EXCEPT !.exc = "",
                                 !.errors = Append(@, [text |-> "Failed to detach attachment", vrf_name |-> c.vrf_name]),
                                 !.detach_failed = @ \cup {i}]
                  ELSE IF ok THEN r ELSE [r EXCEPT !.detach_failed = @ \cup {i}]
         IN  Overridden_detach_vrf_attachments(s, c, Tail(todo), ok, i)

\* Mutation of the override: an exception of the attach step is dropped.
Overridden_override_vrf_attachments_silent(a, i, qok, ok) ==
    LET c == a.validated[i]
        q == VrfAttachmentApi_query_vrf_attachments(a, c.vrf_name, qok, i)
        todel == Overridden_determine_vrf_attachments_to_detach(Overridden_get_current_vrf_attachments(q, c.vrf_name, qok), c)
        d == IF todel = {} THEN q
             ELSE Overridden_detach_vrf_attachments(
                      q, c, CHOOSE s \in SetToSeqs(todel) : TRUE, ok, i)
        r == BaseState_execute_vrf_attachment_operation_with_response(d, c, "attach", ok, i, TRUE)
    IN  IF r.exc # "" THEN [r EXCEPT !.exc = ""] ELSE r

Overridden_override_vrf_attachments(a, i, qok, ok) ==
    LET c == a.validated[i]
        q == VrfAttachmentApi_query_vrf_attachments(a, c.vrf_name, qok, i)
        todel == Overridden_determine_vrf_attachments_to_detach(Overridden_get_current_vrf_attachments(q, c.vrf_name, qok), c)
        d == IF todel = {} THEN q
             ELSE Overridden_detach_vrf_attachments(
                      q, c, CHOOSE s \in SetToSeqs(todel) : TRUE, ok, i)
        r == BaseState_execute_vrf_attachment_operation_with_response(d, c, "attach", ok, i, TRUE)
    IN  IF r.exc # ""
        THEN [r EXCEPT !.exc = "",
                       !.errors = Append(@, [text |-> "Failed to override VRF attachments", vrf_name |-> c.vrf_name])]
        ELSE r

RECURSIVE Overridden_execute_loop(_, _, _, _)
Overridden_execute_loop(a, i, qoks, oks) ==
    IF i > Len(a.validated) THEN a
    ELSE Overridden_execute_loop(Overridden_override_vrf_attachments(Seen(a, i), i, qoks[i], oks[i]), i + 1, qoks, oks)

Overridden_execute(a, qoks, oks) == BaseState_finalize_result(Overridden_execute_loop(a, 1, qoks, oks))

InitAttach ==
    /\ \E st \in AttachStates :
       \E n \in 1..MaxAttachItems :
       \E cfg \in [1..n -> AttachItems] :
       \E ctl_att \in [Ids -> SUBSET AttachSwitches] :
          attach = [pc |-> "validate", state |-> st, config |-> cfg, verr |-> NoIndex,
                    validated |-> <<>>, controller |-> ctl_att, seen |-> <<>>, requests |-> <<>>,
                    read_failed |-> {}, detach_failed |-> {},
                    attached_vrfs |-> <<>>, detached_vrfs |-> <<>>, errors |-> <<>>, exc |-> "",
                    result |-> ModuleResult_init]
    /\ callers = <<>> /\ results = <<>> /\ NoComponent
    /\ store = <<>> /\ last = NoOp
    /\ handler = "" /\ configs = <<>> /\ order = <<>> /\ pending = <<>> /\ hist = <<>>
    /\ ctl = [f \in Fabrics |-> [n \in Ids |-> Absent]]
    /\ ctl0 = ctl
    /\ cache = [k \in CacheKeys |-> NoEntry]
    /\ now = 0
    /\ NotRun
    /\ pc = "attach"
    /\ state = "" /\ raw = <<>> /\ verr = NoIndex

AttachStep(a) ==
    /\ attach' = a
    /\ UNCHANGED <<main_vars, cache_vars, handler_vars, now, callers, results, component_vars>>

\* validate_parameters of nd_vrf_attachments.py: a rejected item ends the run
\* through fail_json.
AttachValidateParameters ==
    /\ attach.pc = "validate"
    /\ LET bad == VrfAttachmentValidator_first_invalid(attach.config, attach.state)
       IN  IF bad # NoIndex
           THEN AttachStep([attach EXCEPT !.pc = "done", !.verr = bad,
                                          !.result = [@ EXCEPT !.failed = TRUE, !.msg = "Parameter validation failed"]])
           ELSE AttachStep([attach EXCEPT !.pc = "execute",
                                          !.validated = VrfAttachmentValidator_validate_config_list_by_state(attach.config)])

\* main: state_handler.execute(validated_configs), then exit_json, or
\* fail_json for a failed result or an exception that left execute.
AttachExecute ==
    /\ attach.pc = "execute"
    /\ \E qoks \in [1..Len(attach.validated) -> BOOLEAN], oks \in [1..Len(attach.validated) -> BOOLEAN] :
          LET r == CASE attach.state = "merged" -> Merged_execute(attach, qoks, oks)
                     [] attach.state = "deleted" -> Deleted_execute(attach, qoks, oks)
                     [] OTHER -> Overridden_execute(attach, qoks, oks)
          IN  AttachStep(IF r.exc # ""
                         THEN [r EXCEPT !.pc = "done",
                                        !.result = [changed |-> FALSE, failed |-> TRUE, msg |-> "Module execution failed"]]
                         ELSE [r EXCEPT !.pc = "done"])

NextAttach ==
    \/ AttachValidateParameters
    \/ AttachExecute

SpecAttach == InitAttach /\ [][NextAttach]_vars

(***************************************************************************)
(* VrfApiV2._execute_request with its VrfResponseHandler                   *)
(* (vrf_api_v2.py, vrf_response_handler.py).  A raw response is the set of *)
(* its keys with its RETURN_CODE; of_request tags a response with the      *)
(* request whose raw response, or whose error, it was built from.          *)
(***************************************************************************)
MaxRequests == 3

NotAnInt == 0 - 2

RequestVerbs == {"GET", "POST", "DELETE"}

RequestPaths == {"/fabrics/f1/vrfs", "/fabrics/f2/vrfs"}

ControllerMetadata == {"MESSAGE", "METHOD", "REQUEST_PATH", "RETURN_CODE"}

RawKeySets == {{}, {"vrfName"}, ControllerMetadata \cup {"DATA"}}

RawResponses(n, verb, path) ==
    [keys : RawKeySets, MESSAGE : {"OK"}, METHOD : {verb}, REQUEST_PATH : {path},
     RETURN_CODE : {200, 500, NotAnInt}, of_request : {n}]

NoRaw == [keys |-> {}, MESSAGE |-> "", METHOD |-> "", REQUEST_PATH |-> "", RETURN_CODE |-> NotAnInt, of_request |-> 0]

NoControllerResponse == [MESSAGE |-> "None", METHOD |-> "", REQUEST_PATH |-> "", RETURN_CODE |-> NotAnInt, of_request |-> 0]

VrfControllerResponse(message, method, request_path, return_code, n) ==
    [MESSAGE |-> message, METHOD |-> method, REQUEST_PATH |-> request_path, RETURN_CODE |-> return_code, of_request |-> n]

\* The model validates RETURN_CODE as an int.
VrfControllerResponse_valid(r) == r.RETURN_CODE # NotAnInt

VrfResponseBuilder_build_error_response(error_message, method, request_path, n) ==
    VrfControllerResponse(error_message, method, request_path, 500, n)

VrfResponseHandler_init ==
    [_response |-> NoRaw, _result |-> [success |-> FALSE, set |-> FALSE], _verb |-> "", _request_path |-> "",
     _controller_response |-> NoControllerResponse]

\* The three builders for a response with metadata differ in DATA and, for
\* GET, in MESSAGE; raw data without metadata becomes a 200 query response.
VrfResponseHandler_convert_to_controller_response(h, raw_response) ==
    IF ControllerMetadata \subseteq raw_response.keys
    THEN VrfControllerResponse(IF h._verb = "GET" THEN "OK" ELSE raw_response.MESSAGE, raw_response.METHOD,
                               raw_response.REQUEST_PATH, raw_response.RETURN_CODE, raw_response.of_request)
    ELSE VrfControllerResponse("OK", IF h._verb = "" THEN "GET" ELSE h._verb, h._request_path, 200,
                               raw_response.of_request)

\* commit: the composed ResponseHandler runs first (base_raises, base_success
\* are its outcome); a non-empty response is converted and stored, a failed
\* conversion stores an error result only.
VrfResponseHandler_commit(h, base_raises, base_success) ==
    LET c == VrfResponseHandler_convert_to_controller_response(h, h._response)
    IN  IF base_raises THEN [h |-> h, raised |-> TRUE]
        ELSE IF h._response.keys = {}
             THEN [h |-> [h EXCEPT !._result = [success |-> base_success, set |-> TRUE]], raised |-> FALSE]
        ELSE IF ~VrfControllerResponse_valid(c)
             THEN [h |-> [h EXCEPT !._result = [success |-> FALSE, set |-> TRUE]], raised |-> FALSE]
        ELSE [h |-> [h EXCEPT !._controller_response = c,
                              !._result = [success |-> c.RETURN_CODE \in {200, 201}, set |-> TRUE]],
              raised |-> FALSE]

VrfResponseHandler_get_controller_response(h) == h._controller_response

\* _execute_request: `sent` tells whether rest_send.commit delivered a raw
\* response to the handler or raised before it.
VrfApiV2_execute_request(h, verb, path, raw_response, sent, base_raises, base_success, n) ==
    LET h1 == [h EXCEPT !._request_path = path]
        h2 == [h1 EXCEPT !._response = raw_response, !._verb = verb]
        c == VrfResponseHandler_commit(h2, base_raises, base_success)
        controller_response == VrfResponseHandler_get_controller_response(c.h)
    IN  IF ~sent
        THEN [h |-> h1, success |-> FALSE,
              response |-> VrfResponseBuilder_build_error_response("Request error", verb, path, n)]
        ELSE IF c.raised
        THEN [h |-> c.h, success |-> FALSE,
              response |-> VrfResponseBuilder_build_error_response("Request error", verb, path, n)]
        ELSE IF controller_response # NoControllerResponse
        THEN [h |-> c.h, success |-> controller_response.RETURN_CODE \in {200, 201}, response |-> controller_response]
        ELSE [h |-> c.h, success |-> FALSE,
              response |-> VrfResponseBuilder_build_error_response("Failed to process controller response", verb, path, n)]

InitRequests ==
    /\ response_handler = [h |-> VrfResponseHandler_init, requests |-> 0, last |-> NoOp]
    /\ properties = <<>>
    /\ callers = <<>> /\ results = <<>> /\ attach = <<>>
    /\ store = <<>> /\ last = NoOp
    /\ handler = "" /\ configs = <<>> /\ order = <<>> /\ pending = <<>> /\ hist = <<>>
    /\ ctl = [f \in Fabrics |-> [n \in Ids |-> Absent]]
    /\ ctl0 = ctl
    /\ cache = [k \in CacheKeys |-> NoEntry]
    /\ now = 0
    /\ NotRun
    /\ pc = "requests"
    /\ state = "" /\ raw = <<>> /\ verr = NoIndex

ExecuteRequest ==
    /\ response_handler.requests < MaxRequests
    /\ LET n == response_handler.requests + 1
       IN  \E verb \in RequestVerbs, path \in RequestPaths, sent \in BOOLEAN,
              base_raises \in BOOLEAN, base_success \in BOOLEAN :
           \E raw_response \in RawResponses(n, verb, path) :
              LET r == VrfApiV2_execute_request(response_handler.h, verb, path, raw_response,
                                                sent, base_raises, base_success, n)
              IN  response_handler' =
                      [h |-> r.h, requests |-> n,
                       last |-> [name |-> "execute_request", n |-> n, verb |-> verb, path |-> path,
                                 delivered |-> sent /\ ~base_raises, raw |-> raw_response,
                                 success |-> r.success, response |-> r.response]]
    /\ UNCHANGED <<main_vars, cache_vars, handler_vars, now, callers, results, attach, properties>>

NextRequests == ExecuteRequest

SpecRequests == InitRequests /\ [][NextRequests]_vars

(***************************************************************************)
(* RestSendProperty and ResultsProperty (common/properties).  An object    *)
(* passed to set_value is its identity, the value of its class_name        *)
(* attribute (NoAttribute when it has none) and the class it is an         *)
(* instance of.  `accepted` records that a set_value returned normally.    *)
(***************************************************************************)
PropertyNames == {"rest_send", "results"}

NoAttribute == "no class_name"

NoValue == [id |-> 0, class_name |-> NoAttribute, instance_of |-> "NoneType"]

PropertyObjects ==
    [id : {1, 2}, class_name : {"RestSend", "Results", NoAttribute}, instance_of : {"RestSend", "Results", "object"}]

ClassNeed(prop) == IF prop = "rest_send" THEN "RestSend" ELSE "Results"

Property_init == [_value |-> NoValue, accepted |-> FALSE]

\* get_value: ValueError while _value is None.
Property_get_value(p) ==
    IF p._value = NoValue THEN [raised |-> "ValueError", returned |-> NoValue]
    ELSE [raised |-> "", returned |-> p._value]

\* set_value: the class_name test, the assignment, then the isinstance test
\* and the second assignment.
Property_set_value(p, value, class_need) ==
    IF value.class_name = NoAttribute THEN [p |-> p, raised |-> "TypeError"]
    ELSE IF value.class_name # class_need THEN [p |-> p, raised |-> "TypeError"]
    ELSE IF value.instance_of # class_need THEN [p |-> [p EXCEPT !._value = value], raised |-> "TypeError"]
    ELSE [p |-> [p EXCEPT !._value = value, !.accepted = TRUE], raised |-> ""]

InitProperties ==
    /\ properties = [rest_send |-> Property_init, results |-> Property_init, last |-> NoOp]
    /\ response_handler = <<>>
    /\ callers = <<>> /\ results = <<>> /\ attach = <<>>
    /\ store = <<>> /\ last = NoOp
    /\ handler = "" /\ configs = <<>> /\ order = <<>> /\ pending = <<>> /\ hist = <<>>
    /\ ctl = [f \in Fabrics |-> [n \in Ids |-> Absent]]
    /\ ctl0 = ctl
    /\ cache = [k \in CacheKeys |-> NoEntry]
    /\ now = 0
    /\ NotRun
    /\ pc = "properties"
    /\ state = "" /\ raw = <<>> /\ verr = NoIndex

PropertyStep(p) ==
    /\ properties' = p
    /\ UNCHANGED <<main_vars, cache_vars, handler_vars, now, callers, results, attach, response_handler>>

SetValue(prop) ==
    \E value \in PropertyObjects \cup {NoValue} :
       LET r == Property_set_value(properties[prop], value, ClassNeed(prop))
       IN  PropertyStep([properties EXCEPT ![prop] = r.p,
                            !.last = [name |-> "set_value", prop |-> prop, value |-> value,
                                      before |-> properties[prop], raised |-> r.raised, returned |-> NoValue]])

GetValue(prop) ==
    LET r == Property_get_value(properties[prop])
    IN  PropertyStep([properties EXCEPT
                         !.last = [name |-> "get_value", prop |-> prop, value |-> NoValue,
                                   before |-> properties[prop], raised |-> r.raised, returned |-> r.returned]])

RestSendPropertySetValue ==
    /\ properties.last.name \in {"none", "set_value", "get_value"}
    /\ SetValue("rest_send")

RestSendPropertyGetValue ==
    /\ properties.last.name \in {"none", "set_value", "get_value"}
    /\ GetValue("rest_send")

ResultsPropertySetValue ==
    /\ properties.last.name \in {"none", "set_value", "get_value"}
    /\ SetValue("results")

ResultsPropertyGetValue ==
    /\ properties.last.name \in {"none", "set_value", "get_value"}
    /\ GetValue("results")

NextProperties ==
    \/ RestSendPropertySetValue
    \/ RestSendPropertyGetValue
    \/ ResultsPropertySetValue
    \/ ResultsPropertyGetValue

SpecProperties == InitProperties /\ [][NextProperties]_vars

(***************************************************************************)
(* Properties.  Calls are attributed to the desired item that issued them  *)
(* (item 0: cache pre-warm and delete-unwanted phases); hist[i] holds the  *)
(* controller state the moment item i was taken up and right after it.     *)
(***************************************************************************)
Processed == {i \in DOMAIN configs : hist[i].done}

AllCallsSucceeded == \A k \in DOMAIN calls : calls[k].ok

Count(i, op) == Cardinality({k \in DOMAIN calls : calls[k].item = i /\ calls[k].op = op})

MutSeq(i) == SelectSeq(calls, LAMBDA c : c.item = i /\ c.verb # "GET")

TargetCount(f, n, op) ==
    Cardinality({k \in DOMAIN calls : calls[k].fabric = f /\ calls[k].name = n /\ calls[k].op = op})

ItemsFor(f, n) == {i \in DOMAIN configs : configs[i].fabric = f /\ configs[i].vrf_name = n}

ErrorsOf(i) == {e \in DOMAIN errors : errors[e].item = i}

DeleteThenFailedCreate(i) ==
    /\ Len(MutSeq(i)) >= 2
    /\ MutSeq(i)[1].verb = "DELETE" /\ MutSeq(i)[1].ok
    /\ MutSeq(i)[2].verb = "POST" /\ ~MutSeq(i)[2].ok

C2_MergedPerItemPolicy ==
    (handler \in {"Merged", "MergedV2"} /\ AllCallsSucceeded) =>
        /\ \A k \in DOMAIN calls : calls[k].verb # "DELETE"
        /\ \A i \in Processed :
              /\ hist[i].pre = Absent =>
                    (Count(i, "create") = 1 /\ Count(i, "update") = 0)
              /\ (hist[i].pre # Absent /\ hist[i].pre # configs[i].cfg) =>
                    (Count(i, "update") = 1 /\ Count(i, "create") = 0)
              /\ hist[i].pre = configs[i].cfg =>
                    (Count(i, "create") = 0 /\ Count(i, "update") = 0)

\* C3: Merged / MergedV2, every controller call succeeding: when every desired
\* item already equals the controller's state, the run issues no create and no
\* update, does not end in an exception, and returns changed = false and
\* failed = false.
C3_MergedIdempotence ==
    (/\ handler \in {"Merged", "MergedV2"}
     /\ AllCallsSucceeded
     /\ \A i \in DOMAIN configs : ctl0[configs[i].fabric][configs[i].vrf_name] = configs[i].cfg) =>
        /\ \A k \in DOMAIN calls : calls[k].op \notin {"create", "update"}
        /\ pc # "raised"
        /\ pc = "done" => (~changed /\ ~failed)

\* C4: Replaced / ReplacedV2, every controller call succeeding: a desired item
\* whose resource exists with a different configuration issues exactly one
\* delete for its (fabric, id) and then exactly one create for the same
\* (fabric, id), and no update.
C4_ReplacedOrdering ==
    (handler \in {"Replaced", "ReplacedV2"} /\ AllCallsSucceeded) =>
        \A i \in Processed :
            (hist[i].pre # Absent /\ hist[i].pre # configs[i].cfg) =>
                /\ Len(MutSeq(i)) = 2
                /\ MutSeq(i)[1].op = "delete" /\ MutSeq(i)[1].name = configs[i].vrf_name
                /\ MutSeq(i)[1].fabric = configs[i].fabric
                /\ MutSeq(i)[2].op = "create" /\ MutSeq(i)[2].name = configs[i].vrf_name
                /\ MutSeq(i)[2].fabric = configs[i].fabric

\* C5: Replaced / ReplacedV2: when an item's delete succeeds and the create
\* that follows fails, right after the item the resource is absent on the
\* controller and has no cache entry, the item appended exactly one error and
\* it names the resource, the item issued no call after the failed create, and
\* the run goes on to the remaining items and finalises.
C5_ReplacedPartialFailure ==
    handler \in {"Replaced", "ReplacedV2"} =>
        \A i \in Processed :
            DeleteThenFailedCreate(i) =>
                /\ hist[i].post = Absent
                /\ ~hist[i].postCached
                /\ Len(MutSeq(i)) = 2
                /\ hist[i].nerr = 1
                /\ Cardinality(ErrorsOf(i)) = 1
                /\ \A e \in ErrorsOf(i) : errors[e].name = configs[i].vrf_name
                /\ pc \in {"items", "final", "done"}
                /\ pc = "items" => idx <= Len(configs)
                /\ pc \in {"final", "done"} => Processed = DOMAIN configs

C5_Witness ==
    /\ handler = "ReplacedV2" /\ pc = "done"
    /\ Len(configs) = 2
    /\ DeleteThenFailedCreate(1)
    /\ ctl0[configs[1].fabric][configs[1].vrf_name] # Absent
    /\ hist[2].done /\ Count(2, "create") = 1
    /\ failed

\* C6: Replaced / ReplacedV2, every controller call succeeding: a desired item
\* whose resource exists and equals the desired configuration issues no delete
\* and no create and does not set changed.
C6_ReplacedNoOpOnEquality ==
    (handler \in {"Replaced", "ReplacedV2"} /\ AllCallsSucceeded) =>
        \A i \in Processed :
            hist[i].pre = configs[i].cfg => (MutSeq(i) = <<>> /\ ~hist[i].changed)

\* C7: Deleted / DeletedV2, every controller call succeeding: a desired item
\* with an empty vrf_name reads the fabric's listing from the controller and
\* issues exactly one delete for every resource the controller holds in that
\* fabric at that moment, and for nothing else.
C7_DeletedEmptyIdFresh ==
    (handler \in {"Deleted", "DeletedV2"} /\ AllCallsSucceeded) =>
        \A i \in Processed :
            configs[i].vrf_name = "" =>
                /\ \E k \in DOMAIN calls : calls[k].item = i /\ calls[k].verb = "GET"
                /\ {calls[k].name : k \in {j \in DOMAIN calls : calls[j].item = i /\ calls[j].op = "delete"}}
                      = hist[i].preNames
                /\ Count(i, "delete") = Cardinality(hist[i].preNames)

\* C8: Deleted / DeletedV2: a desired item naming a resource that is absent on
\* the controller issues no delete, appends no error and does not set changed;
\* a batch of only such items ends with changed = false and failed = false.
C8_DeletedIdempotence ==
    handler \in {"Deleted", "DeletedV2"} =>
        /\ \A i \in Processed :
              (configs[i].vrf_name # "" /\ hist[i].pre = Absent) =>
                  (Count(i, "delete") = 0 /\ hist[i].nerr = 0 /\ ~hist[i].changed)
        /\ (\A i \in DOMAIN configs :
               configs[i].vrf_name # "" /\ ctl0[configs[i].fabric][configs[i].vrf_name] = Absent) =>
              /\ pc # "raised"
              /\ ~changed
              /\ pc = "done" => ~failed

C8_Witness ==
    /\ handler = "DeletedV2" /\ pc = "done"
    /\ Len(configs) = 2
    /\ \A i \in DOMAIN configs : configs[i].vrf_name # "" /\ hist[i].pre = Absent
    /\ CtlNames(ctl0, "f1") # {}
    /\ \E k \in DOMAIN calls : ~calls[k].ok
    /\ ~changed /\ ~failed

\* C9: Query / QueryV2: whatever the batch and the controller's responses, the
\* run issues only reads (no create, update or delete), leaves the controller
\* as it was, and a returned result has changed = false.
C9_QueryNonMutation ==
    handler \in {"Query", "QueryV2"} =>
        /\ \A k \in DOMAIN calls : calls[k].verb = "GET" /\ calls[k].op = "query_all"
        /\ ctl = ctl0
        /\ pc = "done" => changed = FALSE

C9_Witness ==
    /\ handler \in {"Query", "QueryV2"} /\ pc = "done"
    /\ Len(calls) = 2
    /\ \E k \in DOMAIN calls : ~calls[k].ok
    /\ \E k \in DOMAIN calls : calls[k].ok
    /\ failed /\ ~changed

\* C10: Query / QueryV2, every read succeeding: the run does not end in an
\* exception; it returns failed = false with a response list that holds, for
\* each item with an identifier, the matching resource if it exists and, for
\* each item without one, every resource of the item's fabric.
C10_QueryAggregation ==
    (handler \in {"Query", "QueryV2"} /\ AllCallsSucceeded) =>
        /\ pc # "raised"
        /\ pc = "done" =>
              /\ ~failed
              /\ response.set
              /\ \A i \in DOMAIN configs :
                    LET f == configs[i].fabric
                        n == configs[i].vrf_name
                        want == IF n = "" THEN CtlNames(ctl, f) ELSE {n} \cap CtlNames(ctl, f)
                    IN  want # {} =>
                           \E e \in DOMAIN response.entries :
                               /\ response.entries[e].fabric = f
                               /\ want \subseteq response.entries[e].names

GetCount(f) == Cardinality({k \in DOMAIN calls : calls[k].verb = "GET" /\ calls[k].fabric = f})

\* C11: Merged / MergedV2, every controller call succeeding: whatever the
\* desired items and whatever the controller holds (nothing included), the run
\* sends at most one GET per fabric, hence at most k GETs for k fabrics.
C11_OneReadPerFabric ==
    (handler \in {"Merged", "MergedV2"} /\ AllCallsSucceeded) =>
        /\ \A f \in Fabrics : GetCount(f) <= 1
        /\ Cardinality({k \in DOMAIN calls : calls[k].verb = "GET"}) <= Cardinality(FabricsOf(configs))

FailedCalls(i) == {k \in DOMAIN calls : calls[k].item = i /\ calls[k].verb # "GET" /\ ~calls[k].ok}

\* C12: Replaced / ReplacedV2: no exception leaves execute; an item whose
\* delete or create call fails appends an error entry; and every item of the
\* batch is processed before the result is built and returned.
C12_ErrorsCollectedNotThrown ==
    handler \in {"Replaced", "ReplacedV2"} =>
        /\ pc # "raised" /\ exc = ""
        /\ \A i \in Processed : FailedCalls(i) # {} => ErrorsOf(i) # {}
        /\ pc \in {"final", "done"} => Processed = DOMAIN configs

MutatingHandlers ==
    {"Merged", "MergedV2", "Replaced", "ReplacedV2", "Overridden", "OverriddenV2", "Deleted", "DeletedV2"}

Names(parts) == UNION {{parts[p].names[j] : j \in DOMAIN parts[p].names} : p \in DOMAIN parts}

Invalid(config_list, st) == {i \in DOMAIN config_list : ~StateConfig_valid(config_list[i], st)}

\* C14: ndfc_vrf.main: when some item of the batch is invalid for the selected
\* state, validation ends the run with an error naming the (0-based) index of
\* the first invalid item, no handler is created and no controller request is
\* ever issued; hence any request that is issued follows a validation that
\* accepted every item.
C14_ValidationPrecedesReconciliation ==
    state \in States =>
        /\ pc = "validate" => (calls = <<>> /\ handler = "")
        /\ (pc # "validate" /\ Invalid(raw, state) # {}) =>
              /\ pc = "fail_json"
              /\ verr = Least(Invalid(raw, state)) - 1
              /\ calls = <<>>
              /\ handler = ""
        /\ calls # <<>> => (Invalid(raw, state) = {} /\ Len(configs) = Len(raw))

C14_Witness ==
    /\ state = "replaced" /\ pc = "fail_json"
    /\ Len(raw) = 2
    /\ StateConfig_valid(raw[1], state) /\ ~StateConfig_valid(raw[2], state)
    /\ verr = 1
    /\ calls = <<>>

(***************************************************************************)
(* Properties of the cache.  An entry is live at t when it is in the store *)
(* and either has no TTL or t is not past timestamp + ttl.                 *)
(***************************************************************************)
LiveAt(e, t) == e.present /\ (e.ttl = NoTtl \/ t <= e.timestamp + e.ttl)

LiveKeys(c, t) == {k \in DOMAIN c : LiveAt(c[k], t)}

LastKey == CacheKey(last.kind, last.fabric, last.id)

BulkResult(c, f, kind, t) ==
    [n \in {k[3] : k \in {j \in LiveKeys(c, t) : j[1] = kind /\ j[2] = f}} |-> c[CacheKey(kind, f, n)].data]

ResolvedTtl(ttl, dflt) == IF ttl = NoTtl THEN dflt ELSE ttl

Written(v, ttl, t) == [present |-> TRUE, data |-> v, timestamp |-> t, ttl |-> ttl]

Swept(c, k, t) == IF LiveAt(c[k], t) THEN c[k] ELSE NoEntry

\* C15: CacheManager.get_or_fetch(key, fetch_fn, ttl): with a live entry for
\* key in the store, whatever its value (a stored None included), the call
\* returns that value and does not invoke fetch_fn; with none, it invokes
\* fetch_fn and, when that returns, stores the value under key with TTL = ttl
\* if given else the manager default, and returns it.
C15_GetOrFetch ==
    last.name = "get_or_fetch" =>
        IF LiveAt(last.before[LastKey], last.at)
        THEN ~last.fetch /\ ~last.raised /\ last.value = last.before[LastKey].data
        ELSE /\ last.fetch
             /\ ~last.fetched.raises =>
                   /\ last.value = last.fetched.value
                   /\ store[LastKey] = Written(last.fetched.value, ResolvedTtl(last.ttl, DefaultTtl), last.at)

\* C16: when fetch_fn raises during get_or_fetch or get_bulk_or_fetch, the
\* exception leaves the call and the store holds exactly the live entries it
\* held before the call, each unchanged.
C16_FetchFailureCachesNothing ==
    (last.name \in {"get_or_fetch", "get_bulk_or_fetch"} /\ last.fetch /\ last.fetched.raises) =>
        /\ last.raised
        /\ LiveKeys(store, last.at) = LiveKeys(last.before, last.at)
        /\ \A k \in LiveKeys(store, last.at) : store[k] = last.before[k]

C16_Witness ==
    /\ last.name = "get_or_fetch" /\ last.fetch /\ last.fetched.raises /\ last.raised
    /\ last.before[LastKey].present /\ ~LiveAt(last.before[LastKey], last.at)
    /\ ~store[LastKey].present
    /\ LiveKeys(last.before, last.at) # {}

\* C17: CacheManager.get_bulk_or_fetch(fabric, kind, fetch_fn): with at least
\* one live entry for (fabric, kind) it returns exactly the mapping of those
\* live entries, does not invoke fetch_fn and writes nothing; with none it
\* invokes fetch_fn and, when that returns, writes one entry per identifier of
\* the returned mapping, all with the call's timestamp and the same TTL, and
\* returns that mapping.
C17_GetBulkOrFetch ==
    last.name = "get_bulk_or_fetch" =>
        IF DOMAIN BulkResult(last.before, last.fabric, last.kind, last.at) # {}
        THEN /\ ~last.fetch /\ ~last.raised
             /\ last.data = BulkResult(last.before, last.fabric, last.kind, last.at)
             /\ \A k \in StoreKeys : store[k] = Swept(last.before, k, last.at)
        ELSE /\ last.fetch
             /\ ~last.fetched.raises =>
                   /\ last.data = last.fetched.value
                   /\ \A k \in StoreKeys :
                         store[k] = IF k[1] = last.kind /\ k[2] = last.fabric /\ k[3] \in DOMAIN last.fetched.value
                                    THEN Written(last.fetched.value[k[3]],
                                                 ResolvedTtl(last.ttl, DefaultTtl), last.at)
                                    ELSE Swept(last.before, k, last.at)

C17_Witness ==
    /\ last.name = "get_bulk_or_fetch" /\ ~last.fetch
    /\ ~last.fetched.raises /\ DOMAIN last.fetched.value = {"v1", "v2"}
    /\ DOMAIN last.data = {"v2"}
    /\ last.before[CacheKey(last.kind, last.fabric, "v1")].present

\* C18: MemoryCache: an entry set with ttl_seconds = T >= 1 at time t0 and
\* still in the store is returned by get at every time before t0 + T and is
\* absent, and removed by that read, at every time after t0 + T; a read
\* sweeps an entry exactly when it has a TTL and the time is past timestamp +
\* ttl.
C18_TtlCorrectness ==
    /\ (last.name = "set" /\ last.ttl >= 1) =>
          store[LastKey] = Written(Val(last.n), last.ttl, last.at)
    /\ last.name = "get" =>
          LET e == last.before[LastKey]
          IN  (e.present /\ e.ttl >= 1) =>
                 /\ last.at < e.timestamp + e.ttl => last.value = e.data
                 /\ last.at > e.timestamp + e.ttl => (last.value = NoneD /\ ~store[LastKey].present)
    /\ last.name \in {"get", "get_bulk"} =>
          \A k \in StoreKeys :
              last.before[k].present =>
                 (store[k].present <=>
                     ~(last.before[k].ttl # NoTtl /\ last.at > last.before[k].timestamp + last.before[k].ttl))

C18_Witness ==
    /\ last.name = "get"
    /\ last.before[LastKey].present /\ last.before[LastKey].ttl = 1
    /\ last.at > last.before[LastKey].timestamp + 1
    /\ last.value = NoneD /\ ~store[LastKey].present

Targets(k) ==
    \/ last.name \in {"set", "delete"} /\ k = LastKey
    \/ last.name = "set_bulk" /\ k[1] = last.kind /\ k[2] = last.fabric /\ k[3] \in DOMAIN last.data
    \/ last.name = "invalidate_fabric" /\ k[2] = last.fabric /\ (last.kind = NoKind \/ k[1] = last.kind)
    \/ last.name = "clear"

\* C19: MemoryCache with no store default TTL: set with ttl_seconds = None
\* writes an entry without TTL; such an entry is left as it is by every call
\* that does not delete, invalidate, clear or overwrite its key, whatever the
\* time, and get returns its value.
C19_NoTtlPermanence ==
    /\ (last.name = "set" /\ last.ttl = NoTtl) =>
          store[LastKey] = Written(Val(last.n), NoTtl, last.at)
    /\ \A k \in StoreKeys :
          (last.before[k].present /\ last.before[k].ttl = NoTtl /\ ~Targets(k)) =>
              store[k] = last.before[k]
    /\ (last.name = "get" /\ last.before[LastKey].present /\ last.before[LastKey].ttl = NoTtl) =>
          last.value = last.before[LastKey].data

C19_Witness ==
    /\ last.name = "get"
    /\ last.before[LastKey].present /\ last.before[LastKey].ttl = NoTtl
    /\ last.at >= last.before[LastKey].timestamp + 3
    /\ last.value = last.before[LastKey].data /\ last.value # NoneD
    /\ store[LastKey] = last.before[LastKey]

\* C20: MemoryCache.get_bulk(fabric, kind) returns exactly the live entries of
\* that fabric and kind, keyed by identifier; set, set_bulk, delete and
\* invalidate_fabric on another fabric, and invalidate_fabric on the same
\* fabric with another kind, leave its result as it was; and
\* invalidate_fabric(f) removes every entry of f and no entry of another
\* fabric.
C20_FabricKindIsolation ==
    /\ last.name = "get_bulk" =>
          last.data = BulkResult(last.before, last.fabric, last.kind, last.at)
    /\ last.name \in {"set", "set_bulk", "delete", "invalidate_fabric"} =>
          \A f \in Fabrics \ {last.fabric}, kind \in Kinds :
              BulkResult(store, f, kind, last.at) = BulkResult(last.before, f, kind, last.at)
    /\ (last.name = "invalidate_fabric" /\ last.kind # NoKind) =>
          \A kind \in Kinds \ {last.kind} :
              BulkResult(store, last.fabric, kind, last.at) = BulkResult(last.before, last.fabric, kind, last.at)
    /\ (last.name = "invalidate_fabric" /\ last.kind = NoKind) =>
          \A k \in StoreKeys :
              IF k[2] = last.fabric THEN ~store[k].present ELSE store[k] = last.before[k]

C20_Witness ==
    /\ last.name = "invalidate_fabric" /\ last.kind = NoKind
    /\ \E k \in StoreKeys : k[2] = last.fabric /\ k[1] = VrfKind /\ last.before[k].present
    /\ \E k \in StoreKeys : k[2] = last.fabric /\ k[1] = OtherKind /\ last.before[k].present
    /\ \E k \in StoreKeys : k[2] # last.fabric /\ store[k].present
    /\ \A k \in StoreKeys : k[2] = last.fabric => ~store[k].present

ItemCalls == {k \in DOMAIN calls : calls[k].item > 0 /\ calls[k].verb # "GET"}

\* C24: in every mode the create / update / delete calls made on behalf of
\* desired items follow the order of the items in the input list: a call for
\* item i never comes after a call for an item j > i, also when the items of
\* several fabrics alternate in the list.
C24_ListOrderProcessing ==
    \A k1, k2 \in ItemCalls : k1 < k2 => calls[k1].item <= calls[k2].item

\* C29: merged with the single desired item (f1, v1), v1 absent from f1 on the
\* controller and from the cache, every controller call succeeding: the run
\* issues exactly one create call for v1 and no other mutating call, and ends
\* with changed = true, failed = false and msg = "Created: v1".
C29_MergedCreateScenario ==
    (/\ handler \in {"Merged", "MergedV2"} /\ pc = "done"
     /\ Len(configs) = 1 /\ configs[1].fabric = "f1" /\ configs[1].vrf_name = "v1"
     /\ ctl0["f1"]["v1"] = Absent
     /\ AllCallsSucceeded) =>
        /\ Count(1, "create") = 1
        /\ Len(SelectSeq(calls, LAMBDA c : c.verb # "GET")) = 1
        /\ calls[Len(calls)].name = "v1" /\ calls[Len(calls)].fabric = "f1"
        /\ changed /\ ~failed
        /\ msg = <<Part("Created", <<"v1">>)>>

(***************************************************************************)
(* Properties of the API client (last is the call just made).              *)
(***************************************************************************)
LastVrfKey == CacheKey(VrfKind, last.fabric, last.id)

Mutations == {"create_vrf", "update_vrf", "delete_vrf"}

Queries == {"query_vrf", "query_all_vrfs"}

\* C21: after create_vrf or update_vrf returns success for a payload naming
\* (fabric, vrf_name), the cache holds a live entry under (vrf, fabric,
\* vrf_name) whose value is the resource's data, for every successful response
\* of the controller, one whose DATA holds no VRF record included.
C21_WriteThroughOnCreateUpdate ==
    (last.name \in {"create_vrf", "update_vrf"} /\ last.success) =>
        /\ LiveAt(cache[LastVrfKey], now)
        /\ cache[LastVrfKey].data.kind = "vrf"
        /\ cache[LastVrfKey].data.vrfName = last.id

\* C22: when create_vrf, update_vrf or delete_vrf returns failure, the cache
\* holds the same entries with the same values as before the call.
C22_FailedMutationKeepsCache ==
    (last.name \in Mutations /\ ~last.success) => cache = last.before

C22_Witness ==
    /\ last.name \in {"create_vrf", "update_vrf"} /\ ~last.success
    /\ \E k \in CacheKeys : last.before[k].present /\ k # LastVrfKey
    /\ ~last.before[LastVrfKey].present /\ ~cache[LastVrfKey].present
    /\ Len(calls) = last.calls_before + 1

\* C23: every query_vrf / query_all_vrfs call issues exactly one GET, to the
\* fabric's bulk endpoint (no resource name in the path), whatever the cache
\* holds; it leaves the cache as it was; its result is the controller's
\* listing, restricted to the records named vrf_name when a name is given.
C23_QueryBypassesCache ==
    last.name \in Queries =>
        /\ Len(calls) = last.calls_before + 1
        /\ calls[Len(calls)].verb = "GET"
        /\ calls[Len(calls)].fabric = last.fabric
        /\ calls[Len(calls)].name = ""
        /\ cache = last.before
        /\ last.success = calls[Len(calls)].ok
        /\ last.names = IF ~last.success THEN {}
                        ELSE IF last.name = "query_vrf"
                             THEN CtlNames(ctl, last.fabric) \cap {last.id}
                             ELSE CtlNames(ctl, last.fabric)

C23_Witness ==
    /\ last.name = "query_vrf" /\ last.success
    /\ last.names = {last.id}
    /\ CtlNames(ctl, last.fabric) = {"v1", "v2"}
    /\ \E k \in CacheKeys : k[2] = last.fabric /\ cache[k].present

\* C30: with nothing else changing the controller, after any sequence of
\* get_cached / exists_cached / get_all_cached / create_vrf / update_vrf /
\* delete_vrf calls every live cache entry names a resource that exists on the
\* controller and carries a non-null value; get_all_cached never returns an
\* identifier absent from the controller; and after a successful delete_vrf
\* no entry remains for the deleted identifier.
C30_CacheNamesExistingResources ==
    /\ \A k \in CacheKeys :
          LiveAt(cache[k], now) => (ctl[k[2]][k[3]] # Absent /\ cache[k].data # NoneD)
    /\ last.name = "get_all_cached" => last.names \subseteq CtlNames(ctl, last.fabric)
    /\ (last.name = "delete_vrf" /\ last.success) => ~cache[LastVrfKey].present

(***************************************************************************)
(* Properties of two racing get_or_fetch calls.                            *)
(***************************************************************************)
BothMissed == \A c \in Callers : callers[c].missed

LastSetter == CHOOSE c \in Callers : callers[c].rank = SetsMade

\* C25: two callers of get_or_fetch on the same key, both having found it
\* uncached: each invokes its fetch function once (two fetches in all), each
\* returns the value it fetched itself, and once both are done the store
\* holds the value written by the set that ran last; as soon as one set has
\* run the store holds, for the key, a value one of the callers fetched.
C25_NoSingleFlight ==
    BothMissed =>
        /\ \A c \in Callers :
              callers[c].pc = "done" => (callers[c].fetches = 1 /\ callers[c].ret = callers[c].value)
        /\ (\A c \in Callers : callers[c].pc = "done") =>
              /\ SetsMade = 2
              /\ store[RaceKey].present
              /\ store[RaceKey].data = callers[LastSetter].value
              /\ store[RaceKey].ttl = TtlOr(callers[LastSetter].ttl, DefaultTtl)
        /\ store[RaceKey].present =>
              \E c \in Callers : callers[c].rank > 0 /\ store[RaceKey].data = callers[c].value

C25_Witness ==
    /\ BothMissed
    /\ \A c \in Callers : callers[c].pc = "done"
    /\ callers["A"].value # callers["B"].value
    /\ callers["A"].rank = 2
    /\ store[RaceKey].data = callers["A"].value
    /\ callers["B"].ret = callers["B"].value

(***************************************************************************)
(* Properties of Results.                                                  *)
(***************************************************************************)
Registered == results.registered

Stamped(d, k) == [d EXCEPT !.sequence_number = k]

\* C27: after n register_task_result calls the response, result and metadata
\* lists each have length n, their k-th entries carry sequence_number k, and
\* each entry still reads as the dict registered (with its sequence number),
\* whatever was registered later and however the caller changed its dicts
\* afterwards.
C27_SequenceCorrelation ==
    /\ Len(results.response) = results.task_sequence_number
    /\ Len(results.result) = results.task_sequence_number
    /\ Len(results.metadata) = results.task_sequence_number
    /\ Len(Registered) = results.task_sequence_number
    /\ \A k \in DOMAIN Registered :
          /\ Deref(results.heap, results.response[k]) = Stamped(Registered[k].response, k)
          /\ Deref(results.heap, results.result[k]) = Stamped(Registered[k].result, k)
          /\ Deref(results.heap, results.metadata[k]) =
                 [action |-> Registered[k].action, check_mode |-> Registered[k].check_mode,
                  state |-> Registered[k].state, sequence_number |-> k]

C27_Witness ==
    /\ results.task_sequence_number = 2
    /\ results.result_current = "d1" /\ results.response_current = "d2"
    /\ results.heap["d1"].tag = 3 /\ results.heap["d2"].tag = 3
    /\ Deref(results.heap, results.result[2]).tag = 0
    /\ Deref(results.heap, results.response[2]).tag = 1
    /\ Deref(results.heap, results.result[1]) # Deref(results.heap, results.result[2])

\* C28: after build_final_result, final_result['failed'] is true iff some
\* registered task had result_current['success'] False, and
\* final_result['changed'] is true iff some task was registered with
\* result_current['changed'] True while check_mode was False and neither
\* action nor state was 'query'; with no task registered both are false.
C28_FinalAggregate ==
    results.final.built =>
        /\ results.final.failed <=> \E k \in DOMAIN Registered : Registered[k].result.success = "False"
        /\ results.final.changed <=>
              \E k \in DOMAIN Registered :
                  /\ Registered[k].result.changed = "True"
                  /\ ~Registered[k].check_mode
                  /\ Registered[k].action # "query" /\ Registered[k].state # "query"

C28_Witness ==
    /\ results.final.built /\ results.final.changed /\ ~results.final.failed
    /\ Len(Registered) = 2
    /\ Registered[1].result.changed = "True" /\ Registered[1].state = "query"
    /\ Registered[2].result.changed = "True" /\ Registered[2].state = "merged"
    /\ Registered[2].result.success = "missing"


(***************************************************************************)
(* Properties of the vrf_attachment module.                                 *)
(***************************************************************************)
WithoutList(a) == {i \in DOMAIN a.config : ~a.config[i].given}

Detaches(a, i) == {k \in DOMAIN a.requests : a.requests[k].item = i /\ a.requests[k].verb = "POST"}

AllRequestsOk(a) == \A k \in DOMAIN a.requests : a.requests[k].ok

\* C26: in the vrf_attachment deleted state an item giving fabric and vrf_name
\* but no lan_attach_list passes validation, and the run (with every request
\* succeeding) issues one detach per attachment the VRF had on the controller
\* when the item was handled, and reports changed = TRUE when at least one
\* existed.
C26_DeletedWithoutListDetachesAll ==
    (attach.pc = "done" /\ attach.state = "deleted" /\ WithoutList(attach) # {} /\ AllRequestsOk(attach)) =>
        /\ attach.verr = NoIndex
        /\ \A i \in WithoutList(attach) :
              /\ i \in DOMAIN attach.seen
              /\ Cardinality(Detaches(attach, i)) = Cardinality(attach.seen[i])
              /\ attach.seen[i] # {} => attach.result.changed

SuccessfulMutations == {k \in DOMAIN calls : calls[k].verb # "GET" /\ calls[k].ok}

\* C31: every mutating handler, when execute returns: changed = FALSE implies
\* that no create, update or delete call succeeded on the controller during the
\* run; in particular a replaced item whose delete succeeded and whose create
\* failed leaves changed = TRUE.
C31_ChangedReflectsMutations ==
    (handler \in MutatingHandlers /\ pc = "done") =>
        (~changed => SuccessfulMutations = {})

(***************************************************************************)
(* Properties of two consecutive merged runs.                              *)
(***************************************************************************)
SecondRun == last # NoOp /\ last.name = "run"

FirstRunSucceeded == ~last.failed /\ \A k \in DOMAIN last.calls : last.calls[k].ok

\* C32: Merged / MergedV2: when a run with a fresh cache completes with every
\* call successful, the run that follows it with the same desired list and a
\* fresh cache (every call successful again) issues no create and no update
\* call and leaves changed = FALSE, also for items whose vrf_id was omitted
\* (sent as 0, assigned by the controller).
C32_MergedConvergesInOneRun ==
    (handler \in {"Merged", "MergedV2"} /\ SecondRun /\ FirstRunSucceeded /\ AllCallsSucceeded) =>
        /\ \A k \in DOMAIN calls : calls[k].verb = "GET"
        /\ ~changed

\* C33: Overridden / OverriddenV2, at every point of the run: no delete call is
\* issued for an identifier of the desired set of its fabric, no call of any
\* kind is issued for a fabric that no desired item references, and the
\* resources of such a fabric are the ones it held before the run.
C33_OverriddenDeletesOnlyUnwanted ==
    handler \in {"Overridden", "OverriddenV2"} =>
        /\ \A k \in DOMAIN calls :
              calls[k].verb = "DELETE" => calls[k].name \notin DesiredNames(calls[k].fabric)
        /\ \A k \in DOMAIN calls : calls[k].fabric \in FabricsOf(configs)
        /\ \A f \in Fabrics \ FabricsOf(configs) : ctl[f] = ctl0[f]

C33_Witness ==
    /\ handler \in {"Overridden", "OverriddenV2"} /\ pc = "done"
    /\ \E k \in DOMAIN calls : calls[k].verb = "DELETE" /\ calls[k].ok
    /\ \E i \in DOMAIN configs : ctl0[configs[i].fabric][configs[i].vrf_name] # Absent
    /\ \E f \in Fabrics \ FabricsOf(configs) : CtlNames(ctl0, f) # {}

(***************************************************************************)
(* Properties of the TTL argument.                                         *)
(***************************************************************************)
TtlGiven(dflt) == IF last.ttl = NoTtl THEN dflt ELSE last.ttl

\* C34: ttl_seconds = 0 passed to MemoryCache.set, MemoryCache.set_bulk,
\* CacheManager.update_cache or CacheManager.get_or_fetch (on a miss) writes an
\* entry whose TTL is 0; the store default (set, set_bulk) or the manager
\* default (update_cache, get_or_fetch) is used only when ttl_seconds is None.
C34_ExplicitZeroTtl ==
    /\ last.name = "set" =>
          store[LastKey] = Written(Val(last.n), TtlGiven(MemoryCacheDefaultTtl), last.at)
    /\ last.name = "set_bulk" =>
          \A n \in DOMAIN last.data :
              store[CacheKey(last.kind, last.fabric, n)]
                  = Written(last.data[n], TtlGiven(MemoryCacheDefaultTtl), last.at)
    /\ last.name = "update_cache" =>
          store[LastKey] = Written(Val(last.n), TtlGiven(DefaultTtl), last.at)
    /\ (last.name = "get_or_fetch" /\ last.fetch /\ ~last.raised) =>
          store[LastKey] = Written(last.value, TtlGiven(DefaultTtl), last.at)

AttachRan(st) == attach.pc = "done" /\ attach.state = st /\ attach.verr = NoIndex

AttachPosts(a, op) == {k \in DOMAIN a.requests : a.requests[k].verb = "POST" /\ a.requests[k].op = op}

AllAttachmentsPresent(a) ==
    \A i \in DOMAIN a.config : SwitchesOf(a.config[i].lan_attach_list) \subseteq a.controller[a.config[i].vrf_name]

\* C35: a vrf_attachment merged run whose desired attachments all exist on
\* the controller already returns from execute with changed = false and has
\* issued no attach call.
C35_AttachMergedIdempotent ==
    (AttachRan("merged") /\ AllAttachmentsPresent(attach)) =>
        /\ attach.exc = ""
        /\ AttachPosts(attach, "attach") = {}
        /\ ~attach.result.changed

Requested == response_handler.requests > 0

Unconvertible(raw_response) ==
    ControllerMetadata \subseteq raw_response.keys /\ raw_response.RETURN_CODE = NotAnInt

\* C37: the pair returned by _execute_request is built from the response to
\* that same request, and a request whose response is empty or cannot be
\* converted reports failure instead of an earlier request's response.
C37_ResponseOfSameRequest ==
    Requested =>
        /\ response_handler.last.response.of_request = response_handler.last.n
        /\ (response_handler.last.raw.keys = {} \/ Unconvertible(response_handler.last.raw)) =>
              ~response_handler.last.success

PropertyOp(name) == properties.last.name = name

\* C38: a set_value that raises TypeError leaves the stored value of the
\* property as it was, and get_value raises ValueError until a set_value has
\* been accepted and returns the stored object afterwards.
C38_RejectedSetChangesNothing ==
    /\ (PropertyOp("set_value") /\ properties.last.raised = "TypeError") =>
          properties[properties.last.prop]._value = properties.last.before._value
    /\ (PropertyOp("get_value") /\ ~properties.last.before.accepted) =>
          properties.last.raised = "ValueError"
    /\ (PropertyOp("get_value") /\ properties.last.before.accepted) =>
          (properties.last.raised = "" /\ properties.last.returned = properties.last.before._value)

====
